---- MODULE Spec2Model ----
(***************************************************************************)
(* A model of @falkordb/mem0: the FalkorDBGraph connection wrapper, the    *)
(* CypherTranslator, and the FalkorMemoryGraph add/search/getAll/deleteAll *)
(* engine running against one FalkorDB graph.                              *)
(*                                                                         *)
(* Query text is modelled as a sequence of tokens.  The text a sequence    *)
(* stands for is the concatenation of its tokens, so two adjacent word     *)
(* tokens form one longer word (no word boundary between them).            *)
(***************************************************************************)
EXTENDS Integers, Sequences, FiniteSets, TLC

\* ------------------------------------------------------------------------
\* Bounds of the model
\* ------------------------------------------------------------------------

\* Total number of init/query/close calls started in one behaviour.
MaxCalls == 3

\* Total number of add/search/getAll/deleteAll calls started in one behaviour.
MaxOps == 3

\* The node ids and relationship ids the store can hand out.
MaxNodes == 4
MaxEdges == 3

\* The longest list of tool calls in a response given to entity extraction.
MaxToolCalls == 2

\* ------------------------------------------------------------------------
\* CypherTranslator
\* ------------------------------------------------------------------------

\* \s
WS == {" ", "\n"}

\* The backtick character, as a token.
Backtick == "<backtick>"

\* Tokens made of characters outside \w and \s.
Punct == {"(", ")", ",", "$", "{", "}", "[", "]", "-", "->", ":", Backtick, ".", "=", ">=",
          "|", "+", "*", "/", "'"}

\* \d+
DigitTokens == {"0", "1", "4"}

\* The dotted procedure name: word characters at both ends, but not \w+.
ApocName == {"apoc.merge.relationship", "APOC.MERGE.RELATIONSHIP"}

\* A token whose first and last characters are word characters.
IsWordTok(t) == t \notin WS /\ t \notin Punct

\* A token matched by \w+ as a whole.
IsPureWord(t) == IsWordTok(t) /\ t \notin ApocName

\* \b fails in front of position i when the text before it ends in a word character.
WordBefore(q, i) == i > 1 /\ IsWordTok(q[i - 1])

RECURSIVE SkipWs(_, _)
\* \s* from position i: the first position that holds no whitespace.
SkipWs(q, i) == IF i <= Len(q) /\ q[i] \in WS THEN SkipWs(q, i + 1) ELSE i

RECURSIVE SkipDigits(_, _)
\* \d* from position i.
SkipDigits(q, i) == IF i <= Len(q) /\ q[i] \in DigitTokens THEN SkipDigits(q, i + 1) ELSE i

RECURSIVE SkipWords(_, _)
\* \w* from position i.
SkipWords(q, i) == IF i <= Len(q) /\ IsPureWord(q[i]) THEN SkipWords(q, i + 1) ELSE i

Lowest(S) == CHOOSE i \in S : \A j \in S : i <= j

\* /\belementId\s*\(/ matches at position i.
ElementIdAtNoSpace(q, i) ==
    q[i] = "elementId" /\ ~WordBefore(q, i) /\ i + 1 <= Len(q) /\ q[i + 1] = "("
ElementIdAt(q, i) ==
    /\ q[i] = "elementId" /\ ~WordBefore(q, i)
    /\ SkipWs(q, i + 1) <= Len(q) /\ q[SkipWs(q, i + 1)] = "("

\* An elementId call left in a query text.
HasElementIdCall(q) == \E i \in 1..Len(q) : ElementIdAt(q, i)

RECURSIVE ElementIdFrom(_, _)
\* query.replace(/\belementId\s*\(/g, "id("), from position i: the text up to
\* the next match, the replacement, and the rest.
ElementIdFrom(q, i) ==
    LET at == {j \in i..Len(q) : ElementIdAt(q, j)}
    IN IF at = {} THEN SubSeq(q, i, Len(q))
       ELSE SubSeq(q, i, Lowest(at) - 1) \o <<"id", "(">>
              \o ElementIdFrom(q, SkipWs(q, Lowest(at) + 1) + 1)

translateElementId(query) == ElementIdFrom(query, 1)

\* ,\s*(\d+)\s*\)\s*AS\b  matched with its comma at position k: the position
\* of the AS token, or 0 when there is no match at k.
RoundTail(q, k) ==
    IF k > Len(q) \/ q[k] # "," THEN 0
    ELSE LET d1 == SkipWs(q, k + 1)
             d2 == SkipDigits(q, d1)
             p  == SkipWs(q, d2)
             a  == SkipWs(q, p + 1)
         IN IF /\ d2 > d1
               /\ p <= Len(q) /\ q[p] = ")"
               /\ a <= Len(q) /\ q[a] = "AS"
               /\ (a = Len(q) \/ ~IsWordTok(q[a + 1]))
            THEN a ELSE 0

\* ([\s\S]*?) is lazy: the first position from k on where the tail matches.
FindTail(q, k) ==
    LET at == {j \in k..Len(q) : RoundTail(q, j) # 0}
    IN IF at = {} THEN 0 ELSE Lowest(at)

\* The whole pattern matches at position i.
RoundAt(q, i) ==
    /\ q[i] = "round" /\ ~WordBefore(q, i)
    /\ SkipWs(q, i + 1) <= Len(q) /\ q[SkipWs(q, i + 1)] = "("
    /\ FindTail(q, SkipWs(q, i + 1) + 1) # 0

RECURSIVE RoundFrom(_, _)
\* query.replace(/\bround\s*\(([\s\S]*?),\s*(\d+)\s*\)\s*AS\b/g, "round($1) AS")
\* from position i: the text up to the first match, "round($1) AS" for the
\* match (round at j, its parenthesis at o, the comma of its tail at k), and
\* the rest of the text from after the AS.
RoundFrom(q, i) ==
    LET at == {j \in i..Len(q) : RoundAt(q, j)}
        Splice(j, o, k) ==
            SubSeq(q, i, j - 1) \o <<"round", "(">> \o SubSeq(q, o + 1, k - 1)
                \o <<")", " ", "AS">> \o RoundFrom(q, RoundTail(q, k) + 1)
        Replace(j) ==
            IF j = 0 THEN SubSeq(q, i, Len(q))
            ELSE Splice(j, SkipWs(q, j + 1), FindTail(q, SkipWs(q, j + 1) + 1))
    IN Replace(IF at = {} THEN 0 ELSE Lowest(at))

translateRound(query) == RoundFrom(query, 1)

\* Advance over one token of the set S at position i; 0 stands for "no match".
Lit(q, i, S) == IF i # 0 /\ i <= Len(q) /\ q[i] \in S THEN i + 1 ELSE 0

\* \s*
Ws0(q, i) == IF i = 0 THEN 0 ELSE SkipWs(q, i)

\* \s+
Ws1(q, i) == IF i # 0 /\ i <= Len(q) /\ q[i] \in WS THEN SkipWs(q, i) ELSE 0

\* (\w+), greedy
Word(q, i) == IF i # 0 /\ i <= Len(q) /\ IsPureWord(q[i]) THEN SkipWords(q, i) ELSE 0

RECURSIVE SkipToBrace(_, _)
\* [^}]*\}
SkipToBrace(q, i) ==
    IF i > Len(q) THEN 0
    ELSE IF q[i] = "}" THEN i + 1 ELSE SkipToBrace(q, i + 1)

\* \{[^}]*\}
Braces(q, i) == IF i # 0 /\ i <= Len(q) /\ q[i] = "{" THEN SkipToBrace(q, i + 1) ELSE 0

\* (\{[^}]*\}|\$\w+)
Props(q, i) == IF Braces(q, i) # 0 THEN Braces(q, i) ELSE Word(q, Lit(q, i, {"$"}))

\* \s*\)\s*YIELD\s+(\w+) from position t: where the yield variable starts
\* and where the match ends (0: no match).  The pattern has the i flag.
ApocTail(q, t) ==
    LET y == Ws1(q, Lit(q, Ws0(q, Lit(q, Ws0(q, t), {")"})), {"YIELD", "yield"}))
    IN [ystart |-> y, end |-> Word(q, y)]

\* apocPattern matched with CALL at position i: the captured groups and the
\* position after the match (end = 0: no match at i).
ApocAt(q, i) ==
    LET s1 == Ws0(q, Lit(q, Ws0(q, Lit(q, Ws1(q, Lit(q, i, {"CALL", "call"})), ApocName)),
                         {"("}))
        s2 == Word(q, s1)
        r1 == Lit(q, Ws0(q, Lit(q, Ws0(q, s2), {","})), {"$"})
        r2 == Word(q, r1)
        m2 == Braces(q, Ws0(q, Lit(q, Ws0(q, r2), {","})))
        p2 == Props(q, Ws0(q, Lit(q, Ws0(q, m2), {","})))
        t1 == Ws0(q, Lit(q, Ws0(q, p2), {","}))
        t2 == Word(q, t1)
        o2 == Braces(q, Ws0(q, Lit(q, Ws0(q, t2), {","})))
        \* (?:\s*,\s*\{[^}]*\})? is greedy: the tail is tried after the optional
        \* group first, then without it.
        End(withGroup, without) ==
            IF withGroup # 0 /\ ApocTail(q, withGroup).end # 0
            THEN ApocTail(q, withGroup) ELSE ApocTail(q, without)
        Groups(a1, a2, b1, b2, c1, c2, tail) ==
            [end |-> tail.end,
             src |-> IF tail.end = 0 THEN <<>> ELSE SubSeq(q, a1, a2 - 1),
             rel |-> IF tail.end = 0 THEN <<>> ELSE SubSeq(q, b1, b2 - 1),
             tgt |-> IF tail.end = 0 THEN <<>> ELSE SubSeq(q, c1, c2 - 1),
             yld |-> IF tail.end = 0 THEN <<>> ELSE SubSeq(q, tail.ystart, tail.end - 1)]
    IN Groups(s1, s2, r1, r2, t1, t2, End(o2, t2))

\* params[relTypeParam]: the captured name is a key only as a single token.
HasParam(params, name) == Len(name) = 1 /\ name[1] \in DOMAIN params

\* if (relType): undefined and the empty string are falsy.
Truthy(params, name) == HasParam(params, name) /\ params[name[1]] # ""

\* delete params[relTypeParam]
DeleteKey(params, key) == [k \in DOMAIN params \ {key} |-> params[k]]

\* The callback of the replacement for the match m: the text it returns, and
\* params after it has deleted the entry it read.
ApocCallback(m, params) ==
    [text |-> <<"MERGE", " ", "(">> \o m.src \o <<")", "-", "[">> \o m.yld
                \o <<":", Backtick,
                     IF Truthy(params, m.rel) THEN params[m.rel[1]] ELSE "RELATED_TO",
                     Backtick, "]", "->", "(">> \o m.tgt \o <<")">>,
     params |-> IF Truthy(params, m.rel) THEN DeleteKey(params, m.rel[1]) ELSE params]

RECURSIVE ApocFrom(_, _, _)
\* query.replace(apocPattern, callback) from position i: the text up to the
\* first match (m, at j), what the callback returned for it, and the rest of
\* the text, replaced with the params the callback left.
ApocFrom(q, i, params) ==
    LET at == {j \in i..Len(q) : q[j] \in {"CALL", "call"} /\ ApocAt(q, j).end # 0}
        Splice(j, m, called) ==
            [query |-> SubSeq(q, i, j - 1) \o called.text
                         \o ApocFrom(q, m.end, called.params).query,
             params |-> ApocFrom(q, m.end, called.params).params]
        Replace(j) ==
            IF j = 0 THEN [query |-> SubSeq(q, i, Len(q)), params |-> params]
            ELSE Splice(j, ApocAt(q, j), ApocCallback(ApocAt(q, j), params))
    IN Replace(IF at = {} THEN 0 ELSE Lowest(at))

translateApocMergeRelationship(query, params) == ApocFrom(query, 1, params)

\* CypherTranslator.translate: the three rewrites in turn, on a copy of params.
translate(query, params) ==
    translateApocMergeRelationship(translateRound(translateElementId(query)), params)

\* ------------------------------------------------------------------------
\* The texts of FalkorMemoryGraph's queries.  The cosine expression of the
\* similarity queries (a quotient of reduce(...) sums) is written cosine(.,.).
\* ------------------------------------------------------------------------

SearchGraphHalf(a, b) ==
    << "MATCH", " ", "(", "n", ")", " ", "WHERE", " ", "n", ".", "embedding", " ", "IS",
       " ", "NOT", " ", "NULL", " ", "AND", " ", "n", ".", "user_id", " ", "=", " ", "$",
       "user_id", " ", "WITH", " ", "n", ",", " ", "round", "(", "cosine", "(", "n", ".",
       "embedding", ",", " ", "$", "n_embedding", ")", ",", " ", "4", ")", " ", "AS", " ",
       "similarity", " ", "WHERE", " ", "similarity", " ", ">=", " ", "$", "threshold",
       " ", "MATCH", " ", "(", a, ")", "-", "[", "r", "]", "->", "(", b, ")", " ",
       "RETURN", " ", a, ".", "name", " ", "AS", " ", "source", ",", " ", "elementId", "(",
       a, ")", " ", "AS", " ", "source_id", ",", " ", "type", "(", "r", ")", " ", "AS",
       " ", "relationship", ",", " ", "elementId", "(", "r", ")", " ", "AS", " ",
       "relation_id", ",", " ", b, ".", "name", " ", "AS", " ", "destination", ",", " ",
       "elementId", "(", b, ")", " ", "AS", " ", "destination_id", ",", " ", "similarity" >>

SearchGraphCypher ==
    SearchGraphHalf("n", "m") \o <<" ", "UNION", " ">> \o SearchGraphHalf("m", "n")
      \o <<" ", "ORDER", " ", "BY", " ", "similarity", " ", "DESC", " ", "LIMIT", " ", "$", "limit">>

SearchNodeCypher(candidate, vector, similarity) ==
    << "MATCH", " ", "(", candidate, ")", " ", "WHERE", " ", candidate, ".", "embedding",
       " ", "IS", " ", "NOT", " ", "NULL", " ", "AND", " ", candidate, ".", "user_id", " ",
       "=", " ", "$", "user_id", " ", "WITH", " ", candidate, ",", " ", "round", "(",
       "cosine", "(", candidate, ".", "embedding", ",", " ", "$", vector, ")", ",", " ",
       "4", ")", " ", "AS", " ", similarity, " ", "WHERE", " ", similarity, " ", ">=", " ",
       "$", "threshold", " ", "WITH", " ", candidate, ",", " ", similarity, " ", "ORDER",
       " ", "BY", " ", similarity, " ", "DESC", " ", "LIMIT", " ", "1", " ", "RETURN", " ",
       "elementId", "(", candidate, ")", " ", "as", " ", "element_id" >>

SearchSourceCypher ==
    SearchNodeCypher("source_candidate", "source_embedding", "source_similarity")

SearchDestinationCypher ==
    SearchNodeCypher("destination_candidate", "destination_embedding", "destination_similarity")

DeleteCypher(relationship) ==
    << "MATCH", " ", "(", "n", " ", "{", "name", ":", " ", "$", "source_name", ",", " ",
       "user_id", ":", " ", "$", "user_id", "}", ")", " ", "-", "[", "r", ":",
       relationship, "]", "->", " ", "(", "m", " ", "{", "name", ":", " ", "$",
       "dest_name", ",", " ", "user_id", ":", " ", "$", "user_id", "}", ")", " ", "DELETE",
       " ", "r", " ", "RETURN", " ", "n", ".", "name", " ", "AS", " ", "source", ",", " ",
       "m", ".", "name", " ", "AS", " ", "target", ",", " ", "type", "(", "r", ")", " ",
       "AS", " ", relationship >>

MergeOntoSourceCypher(destinationType, relationship) ==
    << "MATCH", " ", "(", "source", ")", " ", "WHERE", " ", "id", "(", "source", ")", " ",
       "=", " ", "$", "source_id", " ", "MERGE", " ", "(", "destination", ":",
       destinationType, " ", "{", "name", ":", " ", "$", "destination_name", ",", " ",
       "user_id", ":", " ", "$", "user_id", "}", ")", " ", "ON", " ", "CREATE", " ", "SET",
       " ", "destination", ".", "created", " ", "=", " ", "timestamp", "(", ")", ",", " ",
       "destination", ".", "embedding", " ", "=", " ", "$", "destination_embedding", " ",
       "MERGE", " ", "(", "source", ")", "-", "[", "r", ":", relationship, "]", "->", "(",
       "destination", ")", " ", "ON", " ", "CREATE", " ", "SET", " ", "r", ".", "created",
       " ", "=", " ", "timestamp", "(", ")", " ", "RETURN", " ", "source", ".", "name",
       " ", "AS", " ", "source", ",", " ", "type", "(", "r", ")", " ", "AS", " ",
       relationship, ",", " ", "destination", ".", "name", " ", "AS", " ", "target" >>

MergeOntoDestinationCypher(sourceType, relationship) ==
    << "MATCH", " ", "(", "destination", ")", " ", "WHERE", " ", "id", "(", "destination",
       ")", " ", "=", " ", "$", "destination_id", " ", "MERGE", " ", "(", "source", ":",
       sourceType, " ", "{", "name", ":", " ", "$", "source_name", ",", " ", "user_id",
       ":", " ", "$", "user_id", "}", ")", " ", "ON", " ", "CREATE", " ", "SET", " ",
       "source", ".", "created", " ", "=", " ", "timestamp", "(", ")", ",", " ", "source",
       ".", "embedding", " ", "=", " ", "$", "source_embedding", " ", "MERGE", " ", "(",
       "source", ")", "-", "[", "r", ":", relationship, "]", "->", "(", "destination", ")",
       " ", "ON", " ", "CREATE", " ", "SET", " ", "r", ".", "created", " ", "=", " ",
       "timestamp", "(", ")", " ", "RETURN", " ", "source", ".", "name", " ", "AS", " ",
       "source", ",", " ", "type", "(", "r", ")", " ", "AS", " ", relationship, ",", " ",
       "destination", ".", "name", " ", "AS", " ", "target" >>

MergeBetweenCypher(relationship) ==
    << "MATCH", " ", "(", "source", ")", " ", "WHERE", " ", "id", "(", "source", ")", " ",
       "=", " ", "$", "source_id", " ", "MATCH", " ", "(", "destination", ")", " ",
       "WHERE", " ", "id", "(", "destination", ")", " ", "=", " ", "$", "destination_id",
       " ", "MERGE", " ", "(", "source", ")", "-", "[", "r", ":", relationship, "]", "->",
       "(", "destination", ")", " ", "ON", " ", "CREATE", " ", "SET", " ", "r", ".",
       "created_at", " ", "=", " ", "timestamp", "(", ")", ",", " ", "r", ".",
       "updated_at", " ", "=", " ", "timestamp", "(", ")", " ", "RETURN", " ", "source",
       ".", "name", " ", "AS", " ", "source", ",", " ", "type", "(", "r", ")", " ", "AS",
       " ", relationship, ",", " ", "destination", ".", "name", " ", "AS", " ", "target" >>

MergeNewCypher(sourceType, destinationType, relationship) ==
    << "MERGE", " ", "(", "n", ":", sourceType, " ", "{", "name", ":", " ", "$",
       "source_name", ",", " ", "user_id", ":", " ", "$", "user_id", "}", ")", " ", "ON",
       " ", "CREATE", " ", "SET", " ", "n", ".", "created", " ", "=", " ", "timestamp",
       "(", ")", ",", " ", "n", ".", "embedding", " ", "=", " ", "$", "source_embedding",
       " ", "ON", " ", "MATCH", " ", "SET", " ", "n", ".", "embedding", " ", "=", " ", "$",
       "source_embedding", " ", "MERGE", " ", "(", "m", ":", destinationType, " ", "{",
       "name", ":", " ", "$", "dest_name", ",", " ", "user_id", ":", " ", "$", "user_id",
       "}", ")", " ", "ON", " ", "CREATE", " ", "SET", " ", "m", ".", "created", " ", "=",
       " ", "timestamp", "(", ")", ",", " ", "m", ".", "embedding", " ", "=", " ", "$",
       "dest_embedding", " ", "ON", " ", "MATCH", " ", "SET", " ", "m", ".", "embedding",
       " ", "=", " ", "$", "dest_embedding", " ", "MERGE", " ", "(", "n", ")", "-", "[",
       "rel", ":", relationship, "]", "->", "(", "m", ")", " ", "ON", " ", "CREATE", " ",
       "SET", " ", "rel", ".", "created", " ", "=", " ", "timestamp", "(", ")", " ",
       "RETURN", " ", "n", ".", "name", " ", "AS", " ", "source", ",", " ", "type", "(",
       "rel", ")", " ", "AS", " ", relationship, ",", " ", "m", ".", "name", " ", "AS",
       " ", "target" >>

GetAllCypher ==
    << "MATCH", " ", "(", "n", " ", "{", "user_id", ":", " ", "$", "user_id", "}", ")",
       "-", "[", "r", "]", "->", "(", "m", " ", "{", "user_id", ":", " ", "$", "user_id",
       "}", ")", " ", "RETURN", " ", "n", ".", "name", " ", "AS", " ", "source", ",", " ",
       "type", "(", "r", ")", " ", "AS", " ", "relationship", ",", " ", "m", ".", "name",
       " ", "AS", " ", "target", " ", "LIMIT", " ", "$", "limit" >>

DeleteAllCypher ==
    << "MATCH", " ", "(", "n", " ", "{", "user_id", ":", " ", "$", "user_id", "}", ")",
       " ", "DETACH", " ", "DELETE", " ", "n" >>


\* ------------------------------------------------------------------------
\* Model output: tool calls and their parsing (FalkorMemoryGraph)
\* ------------------------------------------------------------------------

\* Strings of the model's output are sequences of characters.
\* String.prototype.toLowerCase on one character.
LowerChar(ch) ==
    CASE ch = "A" -> "a"
      [] ch = "B" -> "b"
      [] ch = "C" -> "c"
      [] ch = "P" -> "p"
      [] ch = "R" -> "r"
      [] OTHER -> ch

\* s.toLowerCase().replace(/ /g, "_")
Normalize(str) ==
    [i \in 1..Len(str) |-> IF LowerChar(str[i]) = " " THEN "_" ELSE LowerChar(str[i])]

\* A property of a parsed JSON object that may be absent.
Absent == [has |-> FALSE, val |-> <<>>]
Str(v) == [has |-> TRUE, val |-> v]

\* JSON.parse(call.arguments) of an extract_entities call: it throws
\* ("malformed"), or gives an object without an entities array ("noEntities"),
\* or one with the array items; an item is null or an object whose entity and
\* entity_type may be absent.
MalformedArgs == [kind |-> "malformed", items |-> <<>>]
NoEntitiesArgs == [kind |-> "noEntities", items |-> <<>>]
EntitiesArgs(items) == [kind |-> "entities", items |-> items]

EntityItem(entity, type) == [isNull |-> FALSE, entity |-> entity, entity_type |-> type]
NullItem == [isNull |-> TRUE, entity |-> Absent, entity_type |-> Absent]

\* An LLMResponse: a plain string, or an object whose toolCalls may be unset.
StringResponse == [isString |-> TRUE, hasToolCalls |-> FALSE, toolCalls |-> <<>>]
NoToolCalls == [isString |-> FALSE, hasToolCalls |-> FALSE, toolCalls |-> <<>>]
ToolCalls(cs) == [isString |-> FALSE, hasToolCalls |-> TRUE, toolCalls |-> cs]

ToolCall(name, args) == [name |-> name, arguments |-> args]

\* A JavaScript object with string keys, in insertion order: a sequence of
\* [k, v] entries with distinct keys.
RECURSIVE ObjHas(_, _)
ObjHas(obj, k) == Len(obj) > 0 /\ (obj[1].k = k \/ ObjHas(Tail(obj), k))

\* obj[k] = v: an existing key keeps its place.
ObjSet(obj, k, v) ==
    IF ObjHas(obj, k)
    THEN [i \in 1..Len(obj) |-> IF obj[i].k = k THEN [k |-> k, v |-> v] ELSE obj[i]]
    ELSE Append(obj, [k |-> k, v |-> v])

\* Object.keys(obj)
ObjKeys(obj) == [i \in 1..Len(obj) |-> obj[i].k]

\* The property key an absent value is coerced to.
UndefinedKey == <<"u", "n", "d", "e", "f", "i", "n", "e", "d">>
KeyOf(prop) == IF prop.has THEN prop.val ELSE UndefinedKey

RECURSIVE ItemsInto(_, _)
\* for (const item of args.entities) entityTypeMap[item.entity] = item.entity_type
\* reading a property of a null item throws: the loop stops there.
ItemsInto(acc, items) ==
    IF Len(items) = 0 THEN acc
    ELSE IF items[1].isNull THEN [acc EXCEPT !.threw = TRUE]
    ELSE ItemsInto([acc EXCEPT !.map = ObjSet(@, KeyOf(items[1].entity), items[1].entity_type)],
                   Tail(items))

RECURSIVE CallsInto(_, _)
\* for (const call of toolCalls) if (call.name === "extract_entities") { ... }
\* JSON.parse throws on malformed arguments, and iterating an absent
\* entities array throws: the loop stops there.
CallsInto(acc, cs) ==
    IF Len(cs) = 0 \/ acc.threw THEN acc
    ELSE IF cs[1].name # "extract_entities" THEN CallsInto(acc, Tail(cs))
    ELSE IF cs[1].arguments.kind # "entities" THEN [acc EXCEPT !.threw = TRUE]
    ELSE CallsInto(ItemsInto(acc, cs[1].arguments.items), Tail(cs))

\* The try block of _retrieveNodesFromData: the entries collected, and whether
\* an exception was caught (what was collected before it stays).
CollectEntities(response) ==
    IF response.isString \/ ~response.hasToolCalls
    THEN [threw |-> FALSE, map |-> <<>>]
    ELSE CallsInto([threw |-> FALSE, map |-> <<>>], response.toolCalls)

RECURSIVE NormalizeEntries(_, _)
\* Object.fromEntries(Object.entries(map).map(([k, v]) => [norm(k), norm(v)])):
\* a later entry with the same normalized key overwrites the earlier value.
NormalizeEntries(acc, entries) ==
    IF Len(entries) = 0 THEN acc
    ELSE NormalizeEntries(ObjSet(acc, Normalize(entries[1].k), Normalize(entries[1].v.val)),
                          Tail(entries))

\* (v as string).toLowerCase() throws a TypeError, outside the try block,
\* when an entity_type is absent.
NormalizeThrows(map) == \E i \in 1..Len(map) : ~map[i].v.has

\* _retrieveNodesFromData, from the model's response on: the entity-type map
\* it returns, or threw when it raises to its caller.
RetrieveNodesFromData(response) ==
    LET got == CollectEntities(response)
    IN IF NormalizeThrows(got.map)
       THEN [threw |-> TRUE, map |-> <<>>]
       ELSE [threw |-> FALSE, map |-> NormalizeEntries(<<>>, got.map)]

\* A triple of the relation or deletion tool output: each field may be absent.
TripleItem(source, relationship, destination) ==
    [source |-> source, relationship |-> relationship, destination |-> destination]

\* JSON.parse(item.arguments) of a delete_graph_memory call is the triple itself.
TripleArgs(item) == [kind |-> "object", items |-> <<item>>]

\* _removeSpacesFromEntities throws a TypeError when a field is absent.
RemoveSpacesThrows(items) ==
    \E i \in 1..Len(items) :
        ~items[i].source.has \/ ~items[i].relationship.has \/ ~items[i].destination.has

\* _removeSpacesFromEntities
removeSpacesFromEntities(items) ==
    [i \in 1..Len(items) |->
        [source |-> Normalize(items[i].source.val),
         relationship |-> Normalize(items[i].relationship.val),
         destination |-> Normalize(items[i].destination.val)]]

NoTriples == [threw |-> FALSE, malformed |-> FALSE, triples |-> <<>>]
ParseThrew == [threw |-> TRUE, malformed |-> TRUE, triples |-> <<>>]

\* removeSpaces applied to what was parsed: a TypeError is not a parse failure.
Spaceless(items) ==
    IF RemoveSpacesThrows(items)
    THEN [threw |-> TRUE, malformed |-> FALSE, triples |-> <<>>]
    ELSE [threw |-> FALSE, malformed |-> FALSE, triples |-> removeSpacesFromEntities(items)]

\* _establishNodesRelationsFromData, from the model's response on: only the
\* first tool call is read, whatever its name; JSON.parse is not guarded.
EstablishRelations(response) ==
    IF response.isString \/ ~response.hasToolCalls \/ Len(response.toolCalls) = 0
    THEN NoTriples
    ELSE LET args == response.toolCalls[1].arguments IN
         CASE args.kind = "empty" -> NoTriples
           [] args.kind = "malformed" -> ParseThrew
           [] args.kind = "noEntities" -> NoTriples
           [] OTHER -> Spaceless(args.items)

RECURSIVE DeleteCallsInto(_, _)
\* for (const item of toolCalls) if (item.name === "delete_graph_memory")
\*     toBeDeleted.push(JSON.parse(item.arguments))
DeleteCallsInto(acc, cs) ==
    IF Len(cs) = 0 THEN Spaceless(acc)
    ELSE IF cs[1].name # "delete_graph_memory" THEN DeleteCallsInto(acc, Tail(cs))
    ELSE IF cs[1].arguments.kind = "malformed" THEN ParseThrew
    ELSE DeleteCallsInto(acc \o cs[1].arguments.items, Tail(cs))

\* _getDeleteEntitiesFromSearchOutput, from the model's response on.
DeleteEntitiesFromResponse(response) ==
    IF response.isString \/ ~response.hasToolCalls
    THEN NoTriples
    ELSE DeleteCallsInto(<<>>, response.toolCalls)

RECURSIVE Join(_)
\* The string a sequence of characters spells.
Join(chars) == IF Len(chars) = 0 THEN "" ELSE chars[1] \o Join(Tail(chars))

\* entityTypeMap[name] || "unknown"
Unknown == <<"u", "n", "k", "n", "o", "w", "n">>

RECURSIVE ObjGet(_, _)
ObjGet(obj, k) ==
    IF Len(obj) = 0 THEN <<>>
    ELSE IF obj[1].k = k THEN obj[1].v ELSE ObjGet(Tail(obj), k)

TypeOf(entityTypeMap, name) ==
    IF ObjHas(entityTypeMap, name) /\ ObjGet(entityTypeMap, name) # <<>>
    THEN ObjGet(entityTypeMap, name) ELSE Unknown

\* ------------------------------------------------------------------------
\* BM25 re-ranking (FalkorMemoryGraph)
\* ------------------------------------------------------------------------

RECURSIVE SplitFrom(_, _, _)
SplitFrom(text, word, acc) ==
    IF Len(text) = 0 THEN Append(acc, word)
    ELSE IF text[1] = " " THEN SplitFrom(Tail(text), <<>>, Append(acc, word))
    ELSE SplitFrom(Tail(text), Append(word, text[1]), acc)

\* query.split(" "): two spaces in a row give an empty word.
SplitSpaces(text) == SplitFrom(text, <<>>, <<>>)

\* Math.log(k) in units of 1/100000, for k = 1..40; the entry of a product is
\* the sum of the entries of its factors, so equal scores compare equal.
LnTable ==
    << 0, 69315, 109861, 138630, 160944, 179176, 194591, 207945, 219722, 230259,
       239790, 248491, 256495, 263906, 270805, 277260, 283321, 289037, 294444, 299574,
       304452, 309105, 313549, 317806, 321888, 325810, 329583, 333221, 336730, 340120,
       343399, 346575, 349651, 352636, 355535, 358352, 361092, 363759, 366356, 368889 >>

\* docFreq.get(term): the number of documents that hold the term.
DocFreq(documents, term) ==
    Cardinality({d \in 1..Len(documents) :
                    \E j \in 1..Len(documents[d]) : documents[d][j] = term})

\* Math.log((N - freq + 0.5) / (freq + 0.5)), without the + 1.
IdfWithoutOne(documents, term) ==
    LET freq == DocFreq(documents, term)
    IN IF freq = 0 THEN 0
       ELSE LnTable[2 * (Len(documents) - freq) + 1] - LnTable[2 * freq + 1]

\* idf.get(term) || 0, where idf = Math.log((N - freq + 0.5) / (freq + 0.5) + 1)
\* = Math.log((2N + 2) / (2 freq + 1)).
Idf(documents, term) ==
    LET freq == DocFreq(documents, term)
    IN IF freq = 0 THEN 0
       ELSE LnTable[2 * Len(documents) + 2] - LnTable[2 * freq + 1]

\* doc.filter((t) => t === term).length
TermFreq(doc, term) == Cardinality({j \in 1..Len(doc) : doc[j] = term})

RECURSIVE TotalLength(_)
\* docLengths.reduce((a, b2) => a + b2, 0)
TotalLength(documents) ==
    IF Len(documents) = 0 THEN 0 ELSE Len(Head(documents)) + TotalLength(Tail(documents))

\* tf * (k1 + 1) / (tf + k1 * (1 - b + b * docLength / avgDocLength)) with
\* k1 = 1.5, b = 0.75 and avgDocLength = total / N, times 420:
\* 8400 tf total / (8 tf total + 3 total + 9 docLength N).  For documents of
\* one length that is 2100 tf / (2 tf + 3): 0, 420, 600, 700.  When every
\* document is empty the quotient is NaN, which sort takes for equal.
TfWeight(tf, docLength, N, total) ==
    IF total = 0 THEN 0
    ELSE (8400 * tf * total) \div (8 * tf * total + 3 * total + 9 * docLength * N)

RECURSIVE ScoreFrom(_, _, _, _)
ScoreFrom(documents, query, doc, i) ==
    IF i > Len(query) THEN 0
    ELSE Idf(documents, query[i])
            * TfWeight(TermFreq(doc, query[i]), Len(doc), Len(documents),
                       TotalLength(documents))
         + ScoreFrom(documents, query, doc, i + 1)

\* BM25.score
Score(documents, query, d) == ScoreFrom(documents, query, documents[d], 1)

RECURSIVE SortByScoreLastFirst(_, _, _)
SortByScoreLastFirst(documents, query, left) ==
    IF left = {} THEN <<>>
    ELSE LET best == CHOOSE d \in left :
                        \A e \in left :
                            \/ Score(documents, query, d) > Score(documents, query, e)
                            \/ Score(documents, query, d) = Score(documents, query, e) /\ d >= e
         IN <<documents[best]>> \o SortByScoreLastFirst(documents, query, left \ {best})

RECURSIVE SortByScore(_, _, _)
\* Array.prototype.sort with (a, b) => b.score - a.score: descending and
\* stable, so of equal scores the earlier document comes first.
SortByScore(documents, query, left) ==
    IF left = {} THEN <<>>
    ELSE LET best == CHOOSE d \in left :
                        \A e \in left :
                            \/ Score(documents, query, d) > Score(documents, query, e)
                            \/ Score(documents, query, d) = Score(documents, query, e) /\ d <= e
         IN <<documents[best]>> \o SortByScore(documents, query, left \ {best})

\* BM25.search
Bm25Search(documents, query) == SortByScore(documents, query, 1..Len(documents))

\* rerankedResults: bm25.search(tokenizedQuery).slice(0, 5)
TopK == 5

SliceAll(s, k) == s
Slice(s, k) == SubSeq(s, 1, IF Len(s) < k THEN Len(s) ELSE k)

\* What search() returns for a non-empty searchOutput.
Rerank(searchOutput, query) ==
    LET documents == [i \in 1..Len(searchOutput) |->
                         <<searchOutput[i].source, searchOutput[i].relationship,
                           searchOutput[i].destination>>]
        ranked == Slice(Bm25Search(documents, SplitSpaces(query)), TopK)
    IN [i \in 1..Len(ranked) |->
           [source |-> ranked[i][1], relationship |-> ranked[i][2], destination |-> ranked[i][3]]]

\* ------------------------------------------------------------------------
\* State
\* ------------------------------------------------------------------------

VARIABLES
    config,          \* FalkorDBGraph.config
    initialized,     \* FalkorDBGraph.initialized
    client,          \* FalkorDBGraph.client: 0 while unset, else the connection's number
    graph,           \* FalkorDBGraph.graph: the selected graph and its connection
    connectCalls,    \* number of calls of FalkorDB.connect
    connectFailures, \* number of those that were rejected
    closeCalls,      \* number of calls of client.close
    openClients,     \* connections opened and not closed
    calls,           \* per caller: the call on the handle it is in
    nCalls,          \* number of calls started
    queriesOk,       \* number of query() calls that returned a result, up to MaxCalls
    idCoercion,      \* whether the store's = takes the string "3" for the id 3
    nodes,           \* the nodes held by the store
    edges,           \* the relationships held by the store
    ops,             \* per application thread: the FalkorMemoryGraph call it is in
    nOps,            \* number of FalkorMemoryGraph calls started
    extraction,      \* a call of _retrieveNodesFromData on its own: input and outcome
    translation,     \* a call of CypherTranslator.translate on its own: input and outcome
    ranking          \* a call of BM25.search, or the end of search(), on its own

connVars == <<config, initialized, client, graph, connectCalls, connectFailures,
              closeCalls, openClients, calls, nCalls, queriesOk>>

memVars == <<idCoercion, nodes, edges, ops, nOps>>

\* The calls of the pure functions.
fnVars == <<translation, ranking>>

vars == <<connVars, memVars, extraction, fnVars>>

\* The parts of the application that call the handle; their calls may overlap.
Callers == {"c1", "c2"}

\* ------------------------------------------------------------------------
\* FalkorDBGraph
\* ------------------------------------------------------------------------

EmptyMap == [k \in {} |-> ""]

\* The optional params argument of query().
NoParams == [given |-> FALSE, map |-> EmptyMap]
Given(m) == [given |-> TRUE, map |-> m]

\* params || {}
ParamsOrEmpty(params) == IF params.given THEN params.map ELSE EmptyMap

\* The graphName of FalkorDBConfig; unset is the empty string.  (The url
\* built from host, port, username and password plays no part here.)
Configs == { [graphName |-> "test_graph"], [graphName |-> ""] }

\* this.config.graphName || "mem0"
SelectedGraphName(cfg) == IF cfg.graphName # "" THEN cfg.graphName ELSE "mem0"

NoGraph == [client |-> 0, name |-> ""]

\* if (this.initialized) return;
InitNeverReturnsEarly == FALSE
InitReturnsEarly == initialized

\* The text and params query() hands to this.graph.query.
QueryArgsUntranslated(cypher, params) == [query |-> cypher, params |-> ParamsOrEmpty(params)]
QueryArgs(cypher, params) == translate(cypher, ParamsOrEmpty(params))

\* What the store client rejects with: an Error with a message, or a thrown string.
StoreErrors == { [kind |-> "Error", message |-> "syntax error"],
                 [kind |-> "string", message |-> "connection lost"] }

\* error.message || String(error)
ErrorText(err) ==
    IF err.kind = "Error"
    THEN IF err.message # "" THEN err.message ELSE "Error"
    ELSE err.message

\* The message of the Error query() throws when the store query fails.
QueryErrorWithoutText(err, translatedQuery) == <<"FalkorDB query failed: ", ErrorText(err)>>
QueryError(err, translatedQuery) ==
    <<"FalkorDB query failed: ", ErrorText(err), "\nQuery: ">> \o translatedQuery

\* What the store client resolves with: rows, no rows, or a reply without data.
StoreReplies == { [hasData |-> TRUE, data |-> <<"row">>],
                  [hasData |-> FALSE, data |-> <<>>] }

\* result.data ?? []
QueryResult(reply) == IF reply.hasData THEN reply.data ELSE <<>>

\* if (this.client)
CloseAlways == TRUE
CloseHasClient == client # 0

NoOutcome == [kind |-> "none", rows |-> <<>>, message |-> <<>>,
              cause |-> [kind |-> "none", message |-> ""]]

IdleCall == [op |-> "none", pc |-> "idle", via |-> "", cypher |-> <<>>, params |-> NoParams,
             sent |-> <<>>, closing |-> 0, outcome |-> NoOutcome]

\* close() is reached directly, through FalkorMemoryGraph.close, or through
\* FalkorMemory.close (whose falkorMemoryGraph is set for a falkordb store):
\* each awaits the next and adds nothing.
CloseLayers == {"FalkorDBGraph", "FalkorMemoryGraph", "FalkorMemory"}

Returned(rows) == [NoOutcome EXCEPT !.kind = "value", !.rows = rows]
Threw(message, cause) == [NoOutcome EXCEPT !.kind = "error", !.message = message, !.cause = cause]

ConnectError == [kind |-> "Error", message |-> "ECONNREFUSED"]
CloseError == [kind |-> "Error", message |-> "close failed"]
TypeError == [kind |-> "Error", message |-> "Cannot read properties of undefined"]

\* The query() calls the callers of the handle make: cypher and params.
QueryInputs ==
    { [cypher |-> <<"BAD", " ", "CYPHER">>, params |-> NoParams],
      [cypher |-> <<"RETURN", " ", "elementId", "(", "n", ")", " ", "AS", " ", "nid">>,
       params |-> Given([foo |-> "bar"])],
      [cypher |-> <<"RETURN", " ", "round", "(", "x", ",", " ", "4", ")", " ", "AS", " ", "s">>,
       params |-> NoParams] }

\* init() up to its first await: returns at once when initialized, else calls
\* FalkorDB.connect and waits for it.  next is where the caller goes on.
EnterInit(c, op, cypher, params, next) ==
    IF InitReturnsEarly
    THEN /\ calls' = [calls EXCEPT ![c] = [IdleCall EXCEPT !.op = op, !.pc = next,
                                           !.cypher = cypher, !.params = params,
                                           !.outcome = IF next = "returned" THEN Returned(<<>>)
                                                       ELSE NoOutcome]]
         /\ UNCHANGED connectCalls
    ELSE /\ calls' = [calls EXCEPT ![c] = [IdleCall EXCEPT !.op = op, !.pc = "connecting",
                                           !.cypher = cypher, !.params = params]]
         /\ connectCalls' = connectCalls + 1

\* A caller calls init().
StartInit(c) ==
    /\ calls[c].pc = "idle"
    /\ nCalls < MaxCalls
    /\ nCalls' = nCalls + 1
    /\ EnterInit(c, "init", <<>>, NoParams, "returned")
    /\ UNCHANGED <<config, initialized, client, graph, connectFailures, closeCalls, openClients, queriesOk>>
    /\ UNCHANGED <<memVars, extraction, fnVars>>

\* A caller calls query(cypher, params): it runs up to `await this.init()`.
StartQuery(c) ==
    /\ calls[c].pc = "idle"
    /\ nCalls < MaxCalls
    /\ nCalls' = nCalls + 1
    /\ \E in \in QueryInputs :
           EnterInit(c, "query", in.cypher, in.params, "initDone")
    /\ UNCHANGED <<config, initialized, client, graph, connectFailures, closeCalls, openClients, queriesOk>>
    /\ UNCHANGED <<memVars, extraction, fnVars>>

\* The connections FalkorDB.connect has resolved with so far; they are numbered
\* 1, 2, ... in the order they are opened.
ConnectionsOpened ==
    connectCalls - connectFailures - Cardinality({d \in Callers : calls[d].pc = "connecting"})

\* FalkorDB.connect resolves: the rest of init().
ConnectResolve(c) ==
    /\ calls[c].pc = "connecting"
    /\ client' = ConnectionsOpened + 1
    /\ graph' = [client |-> client', name |-> SelectedGraphName(config)]
    /\ initialized' = TRUE
    /\ openClients' = openClients \cup {client'}
    /\ calls' = [calls EXCEPT ![c].pc = IF calls[c].op = "init" THEN "returned" ELSE "initDone",
                              ![c].outcome = IF calls[c].op = "init" THEN Returned(<<>>)
                                             ELSE NoOutcome]
    /\ UNCHANGED <<config, connectCalls, connectFailures, closeCalls, nCalls, queriesOk>>
    /\ UNCHANGED <<memVars, extraction, fnVars>>

\* FalkorDB.connect rejects: init(), and a query() waiting for it, reject with it.
ConnectReject(c) ==
    /\ calls[c].pc = "connecting"
    /\ connectFailures' = connectFailures + 1
    /\ calls' = [calls EXCEPT ![c].pc = "threw",
                              ![c].outcome = Threw(<<ConnectError.message>>, ConnectError)]
    /\ UNCHANGED <<config, initialized, client, graph, connectCalls, closeCalls,
                   openClients, nCalls, queriesOk>>
    /\ UNCHANGED <<memVars, extraction, fnVars>>

\* query() after `await this.init()`: translate, then call this.graph.query.
QuerySend(c) ==
    /\ calls[c].pc = "initDone"
    /\ LET args == QueryArgs(calls[c].cypher, calls[c].params)
       IN calls' = [calls EXCEPT ![c].pc = "awaitingStore",
                                 ![c].sent = Append(@, [query |-> args.query,
                                                        params |-> args.params,
                                                        graph |-> graph])]
    /\ UNCHANGED <<config, initialized, client, graph, connectCalls, connectFailures,
                   closeCalls, openClients, nCalls, queriesOk>>
    /\ UNCHANGED <<memVars, extraction, fnVars>>

\* One more query() that returned a result.
CountQuery == IF queriesOk < MaxCalls THEN queriesOk + 1 ELSE queriesOk

\* this.graph.query resolves: query() returns result.data ?? [].
StoreResolve(c) ==
    /\ calls[c].pc = "awaitingStore"
    /\ \E reply \in StoreReplies :
           calls' = [calls EXCEPT ![c].pc = "returned",
                                  ![c].outcome = Returned(QueryResult(reply))]
    /\ queriesOk' = CountQuery
    /\ UNCHANGED <<config, initialized, client, graph, connectCalls, connectFailures,
                   closeCalls, openClients, nCalls>>
    /\ UNCHANGED <<memVars, extraction, fnVars>>

\* this.graph.query rejects: query() throws the wrapped error.
StoreReject(c) ==
    /\ calls[c].pc = "awaitingStore"
    /\ \E err \in StoreErrors :
           calls' = [calls EXCEPT
                        ![c].pc = "threw",
                        ![c].outcome = Threw(QueryError(err, calls[c].sent[Len(calls[c].sent)].query),
                                             err)]
    /\ UNCHANGED <<config, initialized, client, graph, connectCalls, connectFailures,
                   closeCalls, openClients, nCalls, queriesOk>>
    /\ UNCHANGED <<memVars, extraction, fnVars>>

\* A caller calls close(): without a client it returns, else it calls
\* client.close() and waits for it.
StartClose(c) ==
    /\ calls[c].pc = "idle"
    /\ nCalls < MaxCalls
    /\ nCalls' = nCalls + 1
    /\ \E via \in CloseLayers :
         LET call == [IdleCall EXCEPT !.op = "close", !.via = via] IN
         IF CloseHasClient
         THEN IF client = 0
              THEN \* this.client.close() on undefined
                   /\ calls' = [calls EXCEPT ![c] = [call EXCEPT !.pc = "threw",
                                     !.outcome = Threw(<<TypeError.message>>, TypeError)]]
                   /\ UNCHANGED closeCalls
              ELSE /\ calls' = [calls EXCEPT ![c] = [call EXCEPT !.pc = "closing",
                                                                 !.closing = client]]
                   /\ closeCalls' = closeCalls + 1
         ELSE /\ calls' = [calls EXCEPT ![c] = [call EXCEPT !.pc = "returned",
                                                            !.outcome = Returned(<<>>)]]
              /\ UNCHANGED closeCalls
    /\ UNCHANGED <<config, initialized, client, graph, connectCalls, connectFailures, openClients, queriesOk>>
    /\ UNCHANGED <<memVars, extraction, fnVars>>

\* this.initialized = false
InitializedLeftSet == TRUE
InitializedAfterClose == FALSE

\* client.close() resolves: this.initialized = false.
CloseResolve(c) ==
    /\ calls[c].pc = "closing"
    /\ openClients' = openClients \ {calls[c].closing}
    /\ initialized' = InitializedAfterClose
    /\ calls' = [calls EXCEPT ![c].pc = "returned", ![c].outcome = Returned(<<>>)]
    /\ UNCHANGED <<config, client, graph, connectCalls, connectFailures, closeCalls, nCalls, queriesOk>>
    /\ UNCHANGED <<memVars, extraction, fnVars>>

\* client.close() rejects: close() rejects and initialized is left as it was.
CloseReject(c) ==
    /\ calls[c].pc = "closing"
    /\ calls' = [calls EXCEPT ![c].pc = "threw",
                              ![c].outcome = Threw(<<CloseError.message>>, CloseError)]
    /\ UNCHANGED <<config, initialized, client, graph, connectCalls, connectFailures,
                   closeCalls, openClients, nCalls, queriesOk>>
    /\ UNCHANGED <<memVars, extraction, fnVars>>

\* The caller takes the result of its call.
Finish(c) ==
    /\ calls[c].pc \in {"returned", "threw"}
    /\ calls' = [calls EXCEPT ![c] = IdleCall]
    /\ UNCHANGED <<config, initialized, client, graph, connectCalls, connectFailures,
                   closeCalls, openClients, nCalls, queriesOk>>
    /\ UNCHANGED <<memVars, extraction, fnVars>>

\* ------------------------------------------------------------------------
\* The FalkorDB store, as FalkorMemoryGraph's queries use it
\* ------------------------------------------------------------------------

\* The users whose memories are kept (filters["userId"]).
Tenants == {"u1", "u2"}

\* The application: it awaits each FalkorMemoryGraph call before the next.
Procs == {"app"}

\* With a task that makes calls of its own, which overlap the application's.
Threads == Procs \cup {"task"}

NodeIds == 0..(MaxNodes - 1)
EdgeIds == 0..(MaxEdges - 1)

\* embeddingModel.embed(text): the vector is known by the text it embeds.
Embed(text) == [null |-> FALSE, of |-> text]

\* The cosine of two embeddings, in hundredths.  Of the names used here, a and
\* b are close (0.85), b and c less so (0.65), a and c are not (0.30).
Cos(x, y) ==
    IF x.of = y.of THEN 100
    ELSE IF {x.of, y.of} = {<<"a">>, <<"b">>} THEN 85
    ELSE IF {x.of, y.of} = {<<"b">>, <<"c">>} THEN 65
    ELSE 30

\* this.threshold = 0.7, and threshold = 0.9 of the node searches, in hundredths.
Threshold == 70
NodeThreshold == 90

\* limit = 100
SearchLimit == 100

RECURSIVE CloseOf(_, _, _)
\* The position of the parenthesis that closes the one opened before i.
CloseOf(q, i, depth) ==
    IF i > Len(q) THEN 0
    ELSE IF q[i] = "(" THEN CloseOf(q, i + 1, depth + 1)
    ELSE IF q[i] = ")" THEN (IF depth = 1 THEN i ELSE CloseOf(q, i + 1, depth - 1))
    ELSE CloseOf(q, i + 1, depth)

RECURSIVE BackWs(_, _)
BackWs(q, i) == IF i >= 1 /\ q[i] \in WS THEN BackWs(q, i - 1) ELSE i

\* A call of round in the text.
RoundCallAt(q, i) ==
    /\ q[i] = "round" /\ ~WordBefore(q, i)
    /\ SkipWs(q, i + 1) <= Len(q) /\ q[SkipWs(q, i + 1)] = "("

HasRoundCall(q) == \E i \in 1..Len(q) : RoundCallAt(q, i)

\* A call of round with a literal second argument.
HasRoundPrecision(q) ==
    \E i \in 1..Len(q) :
        /\ RoundCallAt(q, i)
        /\ LET c == CloseOf(q, SkipWs(q, i + 1) + 1, 1)
               d == BackWs(q, c - 1)
               k == BackWs(q, d - 1)
           IN c > 0 /\ d >= 1 /\ q[d] \in DigitTokens /\ k >= 1 /\ q[k] = ","

\* FalkorDB has no elementId function, and its round takes one argument.
Acceptable(text) == ~HasElementIdCall(text) /\ ~HasRoundPrecision(text)

\* round(x) of FalkorDB: to the nearest integer, halves away from zero.
RoundInteger(c) ==
    IF c >= 0 THEN ((c + 50) \div 100) * 100 ELSE 0 - (((0 - c) + 50) \div 100) * 100

\* The similarity the executed text computes from a cosine.
SimilarityOf(rounds, c) == IF rounds THEN RoundInteger(c) ELSE c

\* n.user_id = $user_id
AnyUser(n, user) == TRUE
UserIs(n, user) == n.user_id = user

\* The candidates of a similarity search: nodes of the user with an
\* embedding, whose similarity reaches the threshold.
Similar(N, g, rounds, user, vector, threshold) ==
    {n \in N : /\ n.graph = g
               /\ ~n.embedding.null
               /\ UserIs(n, user)
               /\ SimilarityOf(rounds, Cos(n.embedding, vector)) >= threshold}

RECURSIVE Perms(_)
\* The orders in which the store may return a set of rows.
Perms(S) ==
    IF S = {} THEN {<<>>}
    ELSE UNION {{<<x>> \o rest : rest \in Perms(S \ {x})} : x \in S}

\* ORDER BY similarity DESC LIMIT $limit: rows of equal similarity in any order.
Ordered(rows, limit) ==
    {Slice(s, limit) :
        s \in {q \in Perms(rows) :
                  \A i \in 1..(Len(q) - 1) : q[i].similarity >= q[i + 1].similarity}}

SearchRow(s, r, d, sim) ==
    [source |-> s.name, source_id |-> s.id, relationship |-> r.type, relation_id |-> r.id,
     destination |-> d.name, destination_id |-> d.id, similarity |-> sim]

\* The rows of the query of _searchGraphDb: the relationships leaving the
\* candidates, UNION those entering them (equal rows are one row).
SearchGraphRows(N, E, g, rounds, user, vector, threshold) ==
    LET near == Similar(N, g, rounds, user, vector, threshold)
        inG == {m \in N : m.graph = g}
        rel == {r \in E : r.graph = g}
        sim(n) == SimilarityOf(rounds, Cos(n.embedding, vector))
        leaving == {t \in near \X rel \X inG : t[2].src = t[1].id /\ t[2].dst = t[3].id}
        entering == {t \in near \X rel \X inG : t[2].dst = t[1].id /\ t[2].src = t[3].id}
    IN {SearchRow(t[1], t[2], t[3], sim(t[1])) : t \in leaving}
         \cup {SearchRow(t[3], t[2], t[1], sim(t[1])) : t \in entering}

\* String(record.source_id), String(record.relation_id), String(record.destination_id)
SearchOutputItem(record) ==
    [record EXCEPT !.source_id = ToString(@), !.relation_id = ToString(@),
                   !.destination_id = ToString(@)]

\* The results _searchSourceNode and _searchDestinationNode can get: no row,
\* or the id of a candidate of the highest similarity (LIMIT 1), as a string.
SearchNodeResults(N, g, rounds, user, vector, threshold) ==
    LET near == Similar(N, g, rounds, user, vector, threshold)
        sim(n) == SimilarityOf(rounds, Cos(n.embedding, vector))
    IN IF near = {} THEN {<<>>}
       ELSE {<<[elementId |-> ToString(n.id)]>> :
                n \in {m \in near : \A o \in near : sim(m) >= sim(o)}}

\* WHERE id(x) = $x_id, with the string the node search returned.
MatchById(N, g, id) == {n \in N : n.graph = g /\ idCoercion /\ ToString(n.id) = id}

\* timestamp(): the clock, read as the number of the call it is read in (time
\* passes between the calls, and the calls are numbered from 1).  A property
\* that was never set reads 0.
Now == nOps

\* MERGE (x:label {name: $name, user_id: $user_id}) ON CREATE SET x.created,
\* x.embedding, and with setOnMatch also ON MATCH SET x.embedding.  A new node
\* takes the lowest id that is free; ok is FALSE when the model has no id left.
MergeNode(N, g, label, name, user, embedding, setOnMatch) ==
    LET found == {n \in N : n.graph = g /\ n.label = label /\ n.name = name
                            /\ n.user_id = user}
        free == NodeIds \ {n.id : n \in {m \in N : m.graph = g}}
    IN IF found # {}
       THEN [ok |-> TRUE,
             nodes |-> IF setOnMatch
                       THEN (N \ found) \cup {[n EXCEPT !.embedding = embedding] : n \in found}
                       ELSE N,
             id |-> (CHOOSE n \in found : TRUE).id]
       ELSE IF free = {} THEN [ok |-> FALSE, nodes |-> N, id |-> 0]
       ELSE [ok |-> TRUE,
             nodes |-> N \cup {[id |-> Lowest(free), graph |-> g, label |-> label,
                                name |-> name, user_id |-> user, embedding |-> embedding,
                                created |-> Now]},
             id |-> Lowest(free)]

\* The relationship a MERGE creates, with ON CREATE SET r.created (or, in the
\* statement of the case "both exist", r.created_at and r.updated_at: created
\* stands for either).  No statement sets a user_id on a relationship: the
\* property reads as unset, "".
CreateEdge(E, g, type, src, dst, both) ==
    LET free == EdgeIds \ {e.id : e \in {f \in E : f.graph = g}}
    IN IF free = {} THEN [ok |-> FALSE, edges |-> E]
       ELSE [ok |-> TRUE,
             edges |-> E \cup {[id |-> Lowest(free), graph |-> g, type |-> type,
                                src |-> src, dst |-> dst, user_id |-> "", created |-> Now,
                                updated_at |-> IF both THEN Now ELSE 0]}]

\* MERGE (source)-[r:type]->(destination)
MergeEdge(E, g, type, src, dst, both) ==
    IF \E e \in E : e.graph = g /\ e.type = type /\ e.src = src /\ e.dst = dst
    THEN [ok |-> TRUE, edges |-> E]
    ELSE CreateEdge(E, g, type, src, dst, both)

MergeRow(source, type, target) ==
    <<[source |-> source, relationship |-> type, target |-> target]>>

Untouched(N, E) == [ok |-> TRUE, nodes |-> N, edges |-> E, rows |-> <<>>]

\* The statement of the case "source exists, destination is new".
MergeOntoSource(N, E, g, sourceId, label, type, name, user, embedding) ==
    IF MatchById(N, g, sourceId) = {} THEN Untouched(N, E)
    ELSE LET s == CHOOSE n \in MatchById(N, g, sourceId) : TRUE
             d == MergeNode(N, g, label, name, user, embedding, FALSE)
             e == MergeEdge(E, g, type, s.id, d.id, FALSE)
         IN [ok |-> d.ok /\ e.ok, nodes |-> d.nodes, edges |-> e.edges,
             rows |-> MergeRow(s.name, type, name)]

\* The statement of the case "destination exists, source is new".
MergeOntoDestination(N, E, g, destinationId, label, type, name, user, embedding) ==
    IF MatchById(N, g, destinationId) = {} THEN Untouched(N, E)
    ELSE LET d == CHOOSE n \in MatchById(N, g, destinationId) : TRUE
             s == MergeNode(N, g, label, name, user, embedding, FALSE)
             e == MergeEdge(E, g, type, s.id, d.id, FALSE)
         IN [ok |-> s.ok /\ e.ok, nodes |-> s.nodes, edges |-> e.edges,
             rows |-> MergeRow(name, type, d.name)]

\* The statement of the case "both exist".
MergeBetween(N, E, g, sourceId, destinationId, type) ==
    IF MatchById(N, g, sourceId) = {} \/ MatchById(N, g, destinationId) = {}
    THEN Untouched(N, E)
    ELSE LET s == CHOOSE n \in MatchById(N, g, sourceId) : TRUE
             d == CHOOSE n \in MatchById(N, g, destinationId) : TRUE
             e == MergeEdge(E, g, type, s.id, d.id, TRUE)
         IN [ok |-> e.ok, nodes |-> N, edges |-> e.edges,
             rows |-> MergeRow(s.name, type, d.name)]

\* The statement of the case "neither exists".
MergeNew(N, E, g, sourceLabel, sourceName, sourceEmbedding, destinationLabel, destinationName, destinationEmbedding, type, user) ==
    LET s == MergeNode(N, g, sourceLabel, sourceName, user, sourceEmbedding, TRUE)
        d == MergeNode(s.nodes, g, destinationLabel, destinationName, user,
                       destinationEmbedding, TRUE)
        e == MergeEdge(E, g, type, s.id, d.id, FALSE)
    IN [ok |-> s.ok /\ d.ok /\ e.ok, nodes |-> d.nodes, edges |-> e.edges,
        rows |-> MergeRow(sourceName, type, destinationName)]

\* The relationships the statement of _deleteEntities matches.
DeleteMatchesAnySource(N, E, g, type, source, destination, user) ==
    {e \in E :
        /\ e.graph = g /\ e.type = type
        /\ \E m \in N : m.graph = g /\ m.id = e.dst /\ m.name = destination /\ UserIs(m, user)}
DeleteMatches(N, E, g, type, source, destination, user) ==
    {e \in E :
        /\ e.graph = g /\ e.type = type
        /\ \E n \in N : n.graph = g /\ n.id = e.src /\ n.name = source /\ UserIs(n, user)
        /\ \E m \in N : m.graph = g /\ m.id = e.dst /\ m.name = destination /\ UserIs(m, user)}

\* DELETE r: the relationships matched go; the nodes at their ends stay.
DeleteWithEnds(N, E, g, matches) ==
    LET gone == {n \in N : n.graph = g /\ \E e \in matches : n.id = e.src \/ n.id = e.dst}
    IN [nodes |-> N \ gone,
        edges |-> {e \in E : e.graph # g \/ (\A n \in gone : n.id # e.src /\ n.id # e.dst)}]
DeleteRelationships(N, E, g, matches) ==
    [nodes |-> N, edges |-> E \ matches]

\* Its rows: one per relationship deleted.
DeleteRows(matches, type, source, destination) ==
    [i \in 1..Cardinality(matches) |->
        [source |-> source, target |-> destination, relationship |-> type]]

\* The relationships the statement of getAll matches.
GetAllMatches(N, E, g, user) ==
    {e \in E :
        /\ e.graph = g
        /\ \E n \in N : n.graph = g /\ n.id = e.src /\ UserIs(n, user)
        /\ \E m \in N : m.graph = g /\ m.id = e.dst /\ UserIs(m, user)}

NodeOf(N, g, id) == CHOOSE n \in N : n.graph = g /\ n.id = id

\* Its rows, in any order, up to LIMIT $limit.
GetAllResults(N, E, g, user, limit) ==
    {Slice([i \in 1..Len(s) |->
               [source |-> NodeOf(N, g, s[i].src).name, relationship |-> s[i].type,
                target |-> NodeOf(N, g, s[i].dst).name]], limit) :
        s \in Perms(GetAllMatches(N, E, g, user))}

\* MATCH (n {user_id: $user_id}) DETACH DELETE n
DetachDeleteEveryUser(N, E, g, user) ==
    [nodes |-> {n \in N : n.graph # g}, edges |-> {e \in E : e.graph # g}]
DetachDelete(N, E, g, user) ==
    LET gone == {n \in N : n.graph = g /\ UserIs(n, user)}
    IN [nodes |-> N \ gone,
        edges |-> {e \in E : e.graph # g \/ (\A n \in gone : n.id # e.src /\ n.id # e.dst)}]

\* ------------------------------------------------------------------------
\* FalkorMemoryGraph: add, search, getAll, deleteAll
\* ------------------------------------------------------------------------

NoError == [kind |-> "none", message |-> <<>>]

NoResult == [rows |-> <<>>, deleted_entities |-> <<>>, added_entities |-> <<>>,
             relations |-> <<>>]

\* Nothing is with the store.
NoSent == [out |-> FALSE, query |-> <<>>, params |-> EmptyMap, accepts |-> FALSE,
           rounds |-> FALSE]

\* A call in progress: where it is, its locals, the query it is awaiting, and
\* (for the claims) whether the model gave unparseable arguments, whether the
\* call repeats the one before, the graph when it started, and the graphs its
\* queries ran on.
IdleOp ==
    [kind |-> "none", pc |-> "idle", user |-> "", query |-> <<>>,
     entityTypeMap |-> <<>>, toBeAdded |-> <<>>, searchOutput |-> <<>>,
     toBeDeleted |-> <<>>, i |-> 0, sourceFound |-> <<>>, destinationFound |-> <<>>,
     deleted |-> <<>>, added |-> <<>>, result |-> NoResult, error |-> NoError,
     sent |-> NoSent, malformed |-> FALSE, again |-> FALSE,
     before |-> [nodes |-> {}, edges |-> {}], ranOn |-> {}]

\* What the model answers to the entity extraction of an add or a search.
EntityCall(items) == ToolCall("extract_entities", EntitiesArgs(items))

EntityResponses ==
    { ToolCalls(<<EntityCall(<<EntityItem(Str(<<"A">>), Str(<<"P">>))>>)>>),
      ToolCalls(<<EntityCall(<<EntityItem(Str(<<"A">>), Str(<<"P">>)),
                               EntityItem(Str(<<"b">>), Str(<<"P">>))>>)>>),
      ToolCalls(<<ToolCall("extract_entities", MalformedArgs)>>),
      ToolCalls(<<EntityCall(<<EntityItem(Str(<<"A">>), Absent)>>)>>) }

\* What the model answers to the relation extraction of an add.
RelationCall(source, relationship, destination) ==
    ToolCall("establish_relationships",
             EntitiesArgs(<<TripleItem(Str(source), Str(relationship), Str(destination))>>))

RelationResponses ==
    { NoToolCalls,
      ToolCalls(<<RelationCall(<<"A">>, <<"R">>, <<"b">>)>>),
      ToolCalls(<<RelationCall(<<"b">>, <<"R">>, <<"c">>)>>),
      ToolCalls(<<ToolCall("establish_relationships", MalformedArgs)>>) }

\* What the model answers to the deletion decision of an add.
DeleteResponses ==
    { NoToolCalls,
      ToolCalls(<<ToolCall("delete_graph_memory",
                           TripleArgs(TripleItem(Str(<<"A">>), Str(<<"R">>), Str(<<"b">>))))>>),
      ToolCalls(<<ToolCall("delete_graph_memory",
                           TripleArgs(TripleItem(Str(<<"A">>), Str(<<"S">>), Str(<<"b">>))))>>),
      ToolCalls(<<ToolCall("delete_graph_memory", MalformedArgs)>>) }

\* The texts search() is called with.
SearchTexts == { <<"a">>, <<"a", " ", "r", " ", "b">> }

\* A response holds a tool call whose arguments JSON.parse rejects.
HasMalformed(response) ==
    /\ ~response.isString /\ response.hasToolCalls
    /\ \E k \in 1..Len(response.toolCalls) : response.toolCalls[k].arguments.kind = "malformed"

Throws(o, kind, message) ==
    [o EXCEPT !.pc = "threw", !.sent = NoSent,
              !.error = [kind |-> kind, message |-> message]]

\* add returns { deleted_entities, added_entities, relations }.
AddReturns(o) ==
    [o EXCEPT !.pc = "returned",
              !.result = [NoResult EXCEPT !.deleted_entities = o.deleted,
                                          !.added_entities = o.added,
                                          !.relations = o.toBeAdded]]

\* search returns [] for an empty searchOutput, else the five best of BM25.
SearchReturns(o) ==
    [o EXCEPT !.pc = "returned",
              !.result = [NoResult EXCEPT !.rows = IF Len(o.searchOutput) = 0 THEN <<>>
                                                   ELSE Rerank(o.searchOutput, o.query)]]

\* _addEntities: the loop over toBeAdded.
ToAdd(o) ==
    IF Len(o.toBeAdded) > 0
    THEN [o EXCEPT !.pc = "searchSource", !.i = 1, !.sourceFound = <<>>,
                   !.destinationFound = <<>>]
    ELSE AddReturns(o)

\* _deleteEntities: the loop over toBeDeleted.
ToDeleteSkipped(o) == ToAdd(o)
ToDelete(o) ==
    IF Len(o.toBeDeleted) > 0 THEN [o EXCEPT !.pc = "delete", !.i = 1] ELSE ToAdd(o)

\* _searchGraphDb: the loop over Object.keys(entityTypeMap); after it an add
\* asks the model what to delete, and a search returns.
ToSearchGraph(o) ==
    IF Len(o.entityTypeMap) > 0 THEN [o EXCEPT !.pc = "searchGraph", !.i = 1]
    ELSE IF o.kind = "add" THEN [o EXCEPT !.pc = "deletions"]
    ELSE SearchReturns(o)

\* Which of the four statements _addEntities runs for the current triple.
MergeCase(o) ==
    IF Len(o.destinationFound) = 0 /\ Len(o.sourceFound) > 0 THEN "source"
    ELSE IF Len(o.destinationFound) > 0 /\ Len(o.sourceFound) = 0 THEN "destination"
    ELSE IF Len(o.sourceFound) > 0 /\ Len(o.destinationFound) > 0 THEN "both"
    ELSE "neither"

\* The text and params of the query the call is about to make.
PendingQuery(o) ==
    CASE o.pc = "searchGraph" ->
           [cypher |-> SearchGraphCypher,
            params |-> [n_embedding |-> Embed(ObjKeys(o.entityTypeMap)[o.i]),
                        threshold |-> Threshold, user_id |-> o.user, limit |-> SearchLimit]]
      [] o.pc = "delete" ->
           [cypher |-> DeleteCypher(Join(o.toBeDeleted[o.i].relationship)),
            params |-> [source_name |-> o.toBeDeleted[o.i].source,
                        dest_name |-> o.toBeDeleted[o.i].destination, user_id |-> o.user]]
      [] o.pc = "searchSource" ->
           [cypher |-> SearchSourceCypher,
            params |-> [source_embedding |-> Embed(o.toBeAdded[o.i].source),
                        user_id |-> o.user, threshold |-> NodeThreshold]]
      [] o.pc = "searchDestination" ->
           [cypher |-> SearchDestinationCypher,
            params |-> [destination_embedding |-> Embed(o.toBeAdded[o.i].destination),
                        user_id |-> o.user, threshold |-> NodeThreshold]]
      [] o.pc = "merge" /\ MergeCase(o) = "source" ->
           [cypher |-> MergeOntoSourceCypher(
                           Join(TypeOf(o.entityTypeMap, o.toBeAdded[o.i].destination)),
                           Join(o.toBeAdded[o.i].relationship)),
            params |-> [source_id |-> o.sourceFound[1].elementId,
                        destination_name |-> o.toBeAdded[o.i].destination,
                        destination_embedding |-> Embed(o.toBeAdded[o.i].destination),
                        user_id |-> o.user]]
      [] o.pc = "merge" /\ MergeCase(o) = "destination" ->
           [cypher |-> MergeOntoDestinationCypher(
                           Join(TypeOf(o.entityTypeMap, o.toBeAdded[o.i].source)),
                           Join(o.toBeAdded[o.i].relationship)),
            params |-> [destination_id |-> o.destinationFound[1].elementId,
                        source_name |-> o.toBeAdded[o.i].source,
                        source_embedding |-> Embed(o.toBeAdded[o.i].source),
                        user_id |-> o.user]]
      [] o.pc = "merge" /\ MergeCase(o) = "both" ->
           [cypher |-> MergeBetweenCypher(Join(o.toBeAdded[o.i].relationship)),
            params |-> [source_id |-> o.sourceFound[1].elementId,
                        destination_id |-> o.destinationFound[1].elementId,
                        user_id |-> o.user]]
      [] o.pc = "merge" /\ MergeCase(o) = "neither" ->
           [cypher |-> MergeNewCypher(
                           Join(TypeOf(o.entityTypeMap, o.toBeAdded[o.i].source)),
                           Join(TypeOf(o.entityTypeMap, o.toBeAdded[o.i].destination)),
                           Join(o.toBeAdded[o.i].relationship)),
            params |-> [source_name |-> o.toBeAdded[o.i].source,
                        dest_name |-> o.toBeAdded[o.i].destination,
                        source_embedding |-> Embed(o.toBeAdded[o.i].source),
                        dest_embedding |-> Embed(o.toBeAdded[o.i].destination),
                        user_id |-> o.user]]
      [] o.pc = "getAll" ->
           [cypher |-> GetAllCypher, params |-> [user_id |-> o.user, limit |-> SearchLimit]]
      [] o.pc = "deleteAll" ->
           [cypher |-> DeleteAllCypher, params |-> [user_id |-> o.user]]

\* What this.graph.query is handed for it.
Sent(o) ==
    LET Handed(pending) == QueryArgs(pending.cypher, Given(pending.params))
    IN Handed(PendingQuery(o))

QueryPcs == {"searchGraph", "delete", "searchSource", "searchDestination", "merge",
             "getAll", "deleteAll"}

\* query() of this.graph while no other call is in progress: init() runs to
\* its end before the text is sent.
GraphReady ==
    IF InitReturnsEarly
    THEN UNCHANGED <<initialized, client, graph, connectCalls, openClients>>
    ELSE /\ connectCalls' = connectCalls + 1
         /\ client' = ConnectionsOpened + 1
         /\ graph' = [client |-> client', name |-> SelectedGraphName(config)]
         /\ initialized' = TRUE
         /\ openClients' = openClients \cup {client'}

\* The call awaits the store with what it handed to it.  The store has read
\* the text: whether it runs it, and whether the similarity it computes goes
\* through round.
Awaiting(o, g, sent) ==
    [o EXCEPT !.ranOn = @ \cup {g},
              !.sent = [out |-> TRUE, query |-> sent.query, params |-> sent.params,
                        accepts |-> Acceptable(sent.query),
                        rounds |-> HasRoundCall(sent.query)]]

\* The call makes the query it has come to: query() awaits init(), translates,
\* and hands the text and params to this.graph.query.
SendQuery(p) ==
    /\ ops[p].pc \in QueryPcs
    /\ ~ops[p].sent.out
    /\ GraphReady
    /\ ops' = [ops EXCEPT ![p] = Awaiting(ops[p], graph'.name, Sent(ops[p]))]
    /\ UNCHANGED <<config, connectFailures, closeCalls, calls, nCalls, queriesOk, idCoercion,
                   nodes, edges, nOps, extraction, fnVars>>

\* The store answers the query the call at pc awaits.
Answered(p, pc) ==
    /\ ops[p].pc = pc
    /\ ops[p].sent.out
    /\ ops[p].sent.accepts
    /\ queriesOk' = CountQuery
    /\ UNCHANGED <<config, initialized, client, graph, connectCalls, connectFailures,
                   closeCalls, openClients, calls, nCalls, idCoercion, nOps, extraction, fnVars>>

\* The call goes on with the answer.
Got(o) == [o EXCEPT !.sent = NoSent]

\* A call starts: up to its first await.
Begin(p, kind, pc, user, query) ==
    /\ ops[p].pc = "idle"
    /\ nOps < MaxOps
    /\ nOps' = nOps + 1
    /\ ops' = [ops EXCEPT ![p] = [IdleOp EXCEPT !.kind = kind, !.pc = pc, !.user = user,
                                                !.query = query,
                                                !.before = [nodes |-> nodes, edges |-> edges]]]
    /\ UNCHANGED <<connVars, idCoercion, nodes, edges, extraction, fnVars>>

\* add(data, {userId}) is called: it asks the model for the entities.
StartAdd(p) == \E user \in Tenants : Begin(p, "add", "entities", user, <<>>)

\* search(query, {userId}) is called: it asks the model for the entities.
StartSearch(p) ==
    \E user \in Tenants : \E query \in SearchTexts : Begin(p, "search", "entities", user, query)

\* getAll({userId}) is called.
StartGetAll(p) == \E user \in Tenants : Begin(p, "getAll", "getAll", user, <<>>)

\* deleteAll({userId}) is called.
StartDeleteAll(p) == \E user \in Tenants : Begin(p, "deleteAll", "deleteAll", user, <<>>)

\* The model answers the entity extraction with one of the responses: the
\* rest of _retrieveNodesFromData.
EntitiesReplyOf(p, responses) ==
    /\ ops[p].pc = "entities"
    /\ \E response \in responses :
         LET got == RetrieveNodesFromData(response)
             o == [ops[p] EXCEPT !.malformed = @ \/ HasMalformed(response)]
         IN ops' = [ops EXCEPT ![p] =
                IF got.threw THEN Throws(o, "TypeError", <<TypeError.message>>)
                ELSE IF o.kind = "add"
                     THEN [o EXCEPT !.pc = "relations", !.entityTypeMap = got.map]
                     ELSE ToSearchGraph([o EXCEPT !.entityTypeMap = got.map])]
    /\ UNCHANGED <<connVars, idCoercion, nodes, edges, nOps, extraction, fnVars>>

EntitiesReply(p) == EntitiesReplyOf(p, EntityResponses)

\* The model answers the relation extraction with one of the responses: the
\* rest of _establishNodesRelationsFromData.
RelationsReplyOf(p, responses) ==
    /\ ops[p].pc = "relations"
    /\ \E response \in responses :
         LET got == EstablishRelations(response)
             o == [ops[p] EXCEPT !.malformed = @ \/ HasMalformed(response)]
         IN ops' = [ops EXCEPT ![p] =
                IF got.threw
                THEN Throws(o, IF got.malformed THEN "SyntaxError" ELSE "TypeError",
                            <<"relation extraction">>)
                ELSE ToSearchGraph([o EXCEPT !.toBeAdded = got.triples])]
    /\ UNCHANGED <<connVars, idCoercion, nodes, edges, nOps, extraction, fnVars>>

RelationsReply(p) == RelationsReplyOf(p, RelationResponses)

\* One round of the loop of _searchGraphDb: embed the node name, query, and
\* push the rows.
SearchGraphStep(p) ==
    /\ Answered(p, "searchGraph")
    /\ LET o == ops[p]
           sent == o.sent
           rows == SearchGraphRows(nodes, edges, graph.name, sent.rounds, sent.params.user_id,
                                   sent.params.n_embedding, sent.params.threshold)
       IN \E result \in Ordered(rows, sent.params.limit) :
            LET got == [Got(o) EXCEPT
                           !.searchOutput = @ \o [k \in 1..Len(result) |->
                                                     SearchOutputItem(result[k])]]
            IN ops' = [ops EXCEPT ![p] =
                   IF o.i < Len(o.entityTypeMap) THEN [got EXCEPT !.i = @ + 1]
                   ELSE IF o.kind = "add" THEN [got EXCEPT !.pc = "deletions"]
                   ELSE SearchReturns(got)]
    /\ UNCHANGED <<nodes, edges>>

\* The model answers the deletion decision with one of the responses: the
\* rest of _getDeleteEntitiesFromSearchOutput.  (searchOutput is not read
\* after it.)
DeletionsReplyOf(p, responses) ==
    /\ ops[p].pc = "deletions"
    /\ ~ops[p].again
    /\ \E response \in responses :
         LET got == DeleteEntitiesFromResponse(response)
             o == [ops[p] EXCEPT !.malformed = @ \/ HasMalformed(response),
                                 !.searchOutput = <<>>]
         IN ops' = [ops EXCEPT ![p] =
                IF got.threw
                THEN Throws(o, IF got.malformed THEN "SyntaxError" ELSE "TypeError",
                            <<"deletion decision">>)
                ELSE ToDelete([o EXCEPT !.toBeDeleted = got.triples])]
    /\ UNCHANGED <<connVars, idCoercion, nodes, edges, nOps, extraction, fnVars>>

DeletionsReply(p) == DeletionsReplyOf(p, DeleteResponses)

\* The same, in a call that repeats the one before: the model answers as it did.
DeletionsReplyAgain(p) ==
    /\ ops[p].pc = "deletions"
    /\ ops[p].again
    /\ ops' = [ops EXCEPT ![p] = ToDelete([ops[p] EXCEPT !.searchOutput = <<>>])]
    /\ UNCHANGED <<connVars, idCoercion, nodes, edges, nOps, extraction, fnVars>>

\* One round of the loop of _deleteEntities.
DeleteStep(p) ==
    /\ Answered(p, "delete")
    /\ LET o == ops[p]
           sent == o.sent
           item == o.toBeDeleted[o.i]
           hit == DeleteMatches(nodes, edges, graph.name, item.relationship,
                                sent.params.source_name, sent.params.dest_name,
                                sent.params.user_id)
           got == [Got(o) EXCEPT
                      !.deleted = Append(@, DeleteRows(hit, item.relationship,
                                                       sent.params.source_name,
                                                       sent.params.dest_name))]
           left == DeleteRelationships(nodes, edges, graph.name, hit)
       IN /\ nodes' = left.nodes
          /\ edges' = left.edges
          /\ ops' = [ops EXCEPT ![p] =
                 IF o.i < Len(o.toBeDeleted) THEN [got EXCEPT !.i = @ + 1] ELSE ToAdd(got)]

\* _searchSourceNode for the current triple.
SearchSourceStep(p) ==
    /\ Answered(p, "searchSource")
    /\ LET o == ops[p]
           sent == o.sent
       IN \E found \in SearchNodeResults(nodes, graph.name, sent.rounds, sent.params.user_id,
                                         sent.params.source_embedding, sent.params.threshold) :
            ops' = [ops EXCEPT ![p] = [Got(o) EXCEPT !.pc = "searchDestination",
                                                                  !.sourceFound = found]]
    /\ UNCHANGED <<nodes, edges>>

\* _searchDestinationNode for the current triple.
SearchDestinationStep(p) ==
    /\ Answered(p, "searchDestination")
    /\ LET o == ops[p]
           sent == o.sent
       IN \E found \in SearchNodeResults(nodes, graph.name, sent.rounds, sent.params.user_id,
                                         sent.params.destination_embedding,
                                         sent.params.threshold) :
            ops' = [ops EXCEPT ![p] = [Got(o) EXCEPT !.pc = "merge",
                                                                  !.destinationFound = found]]
    /\ UNCHANGED <<nodes, edges>>

\* What the statement chosen for the current triple does to the graph.
Merged(o, g) ==
    LET item == o.toBeAdded[o.i]
        prm == o.sent.params
        sourceType == TypeOf(o.entityTypeMap, item.source)
        destinationType == TypeOf(o.entityTypeMap, item.destination)
    IN CASE MergeCase(o) = "source" ->
              MergeOntoSource(nodes, edges, g, prm.source_id, destinationType,
                              item.relationship, prm.destination_name, prm.user_id,
                              prm.destination_embedding)
         [] MergeCase(o) = "destination" ->
              MergeOntoDestination(nodes, edges, g, prm.destination_id, sourceType,
                                   item.relationship, prm.source_name, prm.user_id,
                                   prm.source_embedding)
         [] MergeCase(o) = "both" ->
              MergeBetween(nodes, edges, g, prm.source_id, prm.destination_id,
                           item.relationship)
         [] OTHER ->
              MergeNew(nodes, edges, g, sourceType, prm.source_name, prm.source_embedding,
                       destinationType, prm.dest_name, prm.dest_embedding,
                       item.relationship, prm.user_id)

\* The statement of _addEntities for the current triple; then the next
\* triple, or add returns.
MergeStep(p) ==
    /\ Answered(p, "merge")
    /\ LET o == ops[p]
           m == Merged(o, graph.name)
           got == [Got(o) EXCEPT !.added = Append(@, m.rows)]
       IN /\ m.ok
          /\ nodes' = m.nodes
          /\ edges' = m.edges
          /\ ops' = [ops EXCEPT ![p] =
                 IF o.i < Len(o.toBeAdded)
                 THEN [got EXCEPT !.pc = "searchSource", !.i = @ + 1, !.sourceFound = <<>>,
                                  !.destinationFound = <<>>]
                 ELSE AddReturns(got)]

\* The query of getAll: its rows are returned.
GetAllStep(p) ==
    /\ Answered(p, "getAll")
    /\ LET o == ops[p]
           sent == o.sent
       IN \E rows \in GetAllResults(nodes, edges, graph.name, sent.params.user_id,
                                    sent.params.limit) :
            ops' = [ops EXCEPT ![p] = [Got(o) EXCEPT
                                          !.pc = "returned",
                                          !.result = [NoResult EXCEPT !.rows = rows]]]
    /\ UNCHANGED <<nodes, edges>>

\* The query of deleteAll.
DeleteAllStep(p) ==
    /\ Answered(p, "deleteAll")
    /\ LET o == ops[p]
           left == DetachDelete(nodes, edges, graph.name, o.sent.params.user_id)
       IN /\ nodes' = left.nodes
          /\ edges' = left.edges
          /\ ops' = [ops EXCEPT ![p] = [Got(o) EXCEPT !.pc = "returned"]]

\* The store rejects the query the call makes: query() throws the wrapped
\* error, and the call rejects with it.
QueryFails(p) ==
    /\ ops[p].sent.out
    /\ \E err \in StoreErrors :
         ops' = [ops EXCEPT ![p] = Throws(ops[p], "store",
                                          QueryError(err, ops[p].sent.query))]
    /\ UNCHANGED <<connVars, idCoercion, nodes, edges, nOps, extraction, fnVars>>

\* The application takes the outcome of its call.
FinishOp(p) ==
    /\ ops[p].pc \in {"returned", "threw"}
    /\ ops' = [ops EXCEPT ![p] = IdleOp]
    /\ UNCHANGED <<connVars, idCoercion, nodes, edges, nOps, extraction, fnVars>>

\* The application repeats the add that has just returned, and the model
\* answers as it did: the same entity-type map, triples and deletions.
AddAgain(p) ==
    /\ ops[p].pc = "returned"
    /\ ops[p].kind = "add"
    /\ nOps < MaxOps
    /\ nOps' = nOps + 1
    /\ ops' = [ops EXCEPT ![p] =
           ToSearchGraph([IdleOp EXCEPT !.kind = "add", !.user = ops[p].user,
                                        !.entityTypeMap = ops[p].entityTypeMap,
                                        !.toBeAdded = ops[p].toBeAdded,
                                        !.toBeDeleted = ops[p].toBeDeleted,
                                        !.malformed = ops[p].malformed,
                                        !.again = TRUE,
                                        !.before = [nodes |-> nodes, edges |-> edges]])]
    /\ UNCHANGED <<connVars, idCoercion, nodes, edges, extraction, fnVars>>

\* ------------------------------------------------------------------------
\* _retrieveNodesFromData on its own
\* ------------------------------------------------------------------------

RECURSIVE SeqsUpTo(_, _)
\* The sequences over S of length at most n.
SeqsUpTo(S, n) ==
    IF n = 0 THEN {<<>>}
    ELSE SeqsUpTo(S, n - 1) \cup {Append(q, x) : q \in {r \in SeqsUpTo(S, n - 1) : Len(r) = n - 1}, x \in S}

\* The entities arrays the model may give: well-formed entries (two of them
\* with the same normalized name), entries lacking entity or entity_type, and
\* a null entry.
ItemLists ==
    { <<>>,
      <<EntityItem(Str(<<"A", " ", "b">>), Str(<<"P", " ", "q">>))>>,
      <<EntityItem(Str(<<"A", " ", "b">>), Str(<<"P">>)),
        EntityItem(Str(<<"a", "_", "b">>), Str(<<"C", " ", "d">>))>>,
      <<EntityItem(Str(<<"A">>), Absent)>>,
      <<EntityItem(Absent, Str(<<"P">>))>>,
      <<EntityItem(Str(<<"c">>), Str(<<"p">>)), NullItem>> }

ExtractionCalls ==
    {ToolCall("extract_entities", a) :
        a \in {MalformedArgs, NoEntitiesArgs} \cup {EntitiesArgs(items) : items \in ItemLists}}
      \cup {ToolCall("other_tool", MalformedArgs)}

\* The responses generateResponse may resolve with.
ExtractionResponses ==
    {StringResponse, NoToolCalls}
      \cup {ToolCalls(cs) : cs \in SeqsUpTo(ExtractionCalls, MaxToolCalls)}

NoExtraction == [pc |-> "none", response |-> StringResponse, threw |-> FALSE, map |-> <<>>]

\* The model answers: the rest of _retrieveNodesFromData.
Extract ==
    /\ extraction.pc = "called"
    /\ LET got == RetrieveNodesFromData(extraction.response)
       IN extraction' = [extraction EXCEPT !.pc = IF got.threw THEN "threw" ELSE "returned",
                                           !.threw = got.threw, !.map = got.map]
    /\ UNCHANGED <<connVars, memVars, fnVars>>

\* ------------------------------------------------------------------------
\* CypherTranslator.translate on its own
\* ------------------------------------------------------------------------

\* The most parts a query text given to translate is made of.
MaxParts == 3

\* A part of a query text: its tokens, which rewrite is meant for it, and the
\* text that rewrite is to make of it.  For a procedure call the captured
\* names are kept, the label being read from params.
Part(kind, text, want) ==
    [kind |-> kind, text |-> text, want |-> want, src |-> "", rel |-> "", tgt |-> "",
     yld |-> ""]
ApocPart(text, src, rel, tgt, yld) ==
    [kind |-> "apoc", text |-> text, want |-> <<>>, src |-> src, rel |-> rel, tgt |-> tgt,
     yld |-> yld]

Parts ==
    << \* elementId(n)
       Part("elementId", <<"elementId", "(", "n", ")">>, <<"id", "(", "n", ")">>),
       \* elementId (r), on two lines
       Part("elementId", <<"elementId", " ", "\n", "(", "r", ")">>, <<"id", "(", "r", ")">>),
       \* round(x, 4) AS s
       Part("round", <<"round", "(", "x", ",", " ", "4", ")", " ", "AS", " ", "s">>,
                     <<"round", "(", "x", ")", " ", "AS", " ", "s">>),
       \* round(f(a, 1) / g(b), 4) AS s, on two lines
       Part("round", <<"round", "(", "f", "(", "a", ",", " ", "1", ")", " ", "/", "\n", "g",
                       "(", "b", ")", ",", " ", "4", ")", " ", "AS", " ", "s">>,
                     <<"round", "(", "f", "(", "a", ",", " ", "1", ")", " ", "/", "\n", "g",
                       "(", "b", ")", ")", " ", "AS", " ", "s">>),
       \* left(y, 4) AS z
       Part("plain", <<"left", "(", "y", ",", " ", "4", ")", " ", "AS", " ", "z">>,
                     <<"left", "(", "y", ",", " ", "4", ")", " ", "AS", " ", "z">>),
       \* round(x) AS r
       Part("plain", <<"round", "(", "x", ")", " ", "AS", " ", "r">>,
                     <<"round", "(", "x", ")", " ", "AS", " ", "r">>),
       \* MATCH (n)
       Part("plain", <<"MATCH", " ", "(", "n", ")">>, <<"MATCH", " ", "(", "n", ")">>),
       \* CALL apoc.merge.relationship(a, $relType, {}, $props, b) YIELD rel
       ApocPart(<<"CALL", " ", "apoc.merge.relationship", "(", "a", ",", " ", "$", "relType",
                  ",", " ", "{", "}", ",", " ", "$", "props", ",", " ", "b", ")", " ", "YIELD",
                  " ", "rel">>, "a", "relType", "b", "rel"),
       \* CALL apoc.merge.relationship(src, $relType, {}, {}, tgt, {}) YIELD r
       ApocPart(<<"CALL", " ", "apoc.merge.relationship", "(", "src", ",", " ", "$",
                  "relType", ",", " ", "{", "}", ",", " ", "{", "}", ",", " ", "tgt", ",", " ",
                  "{", "}", ")", " ", "YIELD", " ", "r">>, "src", "relType", "tgt", "r"),
       \* CALL apoc.merge.relationship(a, $kind, {}, {note: 'top(k, 1) AS x'}, b) YIELD rel
       ApocPart(<<"CALL", " ", "apoc.merge.relationship", "(", "a", ",", " ", "$", "kind",
                  ",", " ", "{", "}", ",", " ", "{", "note", ":", " ", "'", "top", "(", "k",
                  ",", " ", "1", ")", " ", "AS", " ", "x", "'", "}", ",", " ", "b", ")", " ",
                  "YIELD", " ", "rel">>, "a", "kind", "b", "rel") >>

RECURSIVE Lines(_)
\* The texts one per line.
Lines(texts) ==
    IF Len(texts) = 0 THEN <<>>
    ELSE IF Len(texts) = 1 THEN texts[1]
    ELSE texts[1] \o <<"\n">> \o Lines(Tail(texts))

\* The query text made of the parts numbered ix.
QueryText(ix) == Lines([k \in 1..Len(ix) |-> Parts[ix[k]].text])

\* The params translate is called with.
ParamMaps ==
    { [relType |-> "KNOWS", name |-> "Alice"],
      [kind |-> "LIKES", relType |-> "KNOWS"],
      [name |-> "Alice"],
      [relType |-> "", name |-> "Alice"] }

NoTranslation ==
    [pc |-> "none", parts |-> <<>>, query |-> <<>>, params |-> EmptyMap,
     result |-> [query |-> <<>>, params |-> EmptyMap], caller |-> EmptyMap]

\* const translatedParams = { ...params }: the rewrites work on a copy, and the
\* caller's object keeps its entries.
SpreadShares == FALSE
SpreadCopies == TRUE

\* The entries of the caller's object after the call.
CallerParams(params, translatedParams) == IF SpreadCopies THEN params ELSE translatedParams

\* CypherTranslator.translate(query, params) returns.
Translate ==
    /\ translation.pc = "called"
    /\ LET got == translate(translation.query, translation.params)
       IN translation' = [translation EXCEPT
              !.pc = "returned",
              !.result = got,
              !.caller = CallerParams(translation.params, got.params)]
    /\ UNCHANGED <<connVars, memVars, extraction, ranking>>

\* ------------------------------------------------------------------------
\* BM25.search and the end of search() on their own
\* ------------------------------------------------------------------------

\* The longest list of documents given to BM25.
MaxDocs == 3

\* The longest searchOutput the end of search() is given.
MaxHits == 6

\* Documents of several lengths and term frequencies, and tokenized queries.
Documents ==
    { <<>>, <<"a">>, <<"b">>, <<"a", "b">>, <<"b", "b">>, <<"a", "a", "b">> }
TermLists ==
    { <<>>, <<"a">>, <<"b">>, <<"c">>, <<"a", "c">>, <<"a", "b">>, <<"c", "a", "a">> }

\* new BM25(documents).search(query)
RankingCalls ==
    {[fn |-> "bm25", documents |-> documents, terms |-> terms] :
        documents \in SeqsUpTo(Documents, MaxDocs) \ {<<>>}, terms \in TermLists}

\* The hits _searchGraphDb may have collected.
Hits ==
    { [source |-> <<"a">>, source_id |-> "0", relationship |-> <<"r">>, relation_id |-> "0",
       destination |-> <<"b">>, destination_id |-> "1", similarity |-> 100],
      [source |-> <<"b">>, source_id |-> "1", relationship |-> <<"r">>, relation_id |-> "1",
       destination |-> <<"c">>, destination_id |-> "2", similarity |-> 85] }

\* search(query, filters) from the return of _searchGraphDb on.
SearchEndCalls ==
    {[fn |-> "search", hits |-> hits, text |-> text] :
        hits \in SeqsUpTo(Hits, MaxHits), text \in SearchTexts}

NoRanking ==
    [fn |-> "none", pc |-> "none", documents |-> <<>>, terms |-> <<>>, ranked |-> <<>>,
     hits |-> <<>>, text |-> <<>>, rows |-> <<>>]

\* bm25.search(tokenizedQuery)
Rank ==
    /\ ranking.fn = "bm25"
    /\ ranking.pc = "called"
    /\ ranking' = [ranking EXCEPT !.pc = "returned",
                                  !.ranked = Bm25Search(ranking.documents, ranking.terms)]
    /\ UNCHANGED <<connVars, memVars, extraction, translation>>

\* search(): what it returns for the searchOutput it has.
SearchEnd ==
    /\ ranking.fn = "search"
    /\ ranking.pc = "called"
    /\ ranking' = [ranking EXCEPT
           !.pc = "returned",
           !.rows = SearchReturns([IdleOp EXCEPT !.kind = "search",
                                                 !.searchOutput = ranking.hits,
                                                 !.query = ranking.text]).result.rows]
    /\ UNCHANGED <<connVars, memVars, extraction, translation>>

\* new FalkorMemoryGraph(config), which does new FalkorDBGraph(config): no
\* connection yet; the store is empty.
Constructed ==
    /\ initialized = FALSE
    /\ client = 0
    /\ graph = NoGraph
    /\ connectCalls = 0
    /\ connectFailures = 0
    /\ closeCalls = 0
    /\ openClients = {}
    /\ calls = [c \in Callers |-> IdleCall]
    /\ nCalls = 0
    /\ queriesOk = 0
    /\ nodes = {}
    /\ edges = {}
    /\ ops = [p \in Threads |-> IdleOp]
    /\ nOps = 0

Init ==
    /\ Constructed
    /\ config \in Configs
    /\ idCoercion \in BOOLEAN
    /\ extraction = NoExtraction
    /\ translation = NoTranslation
    /\ ranking = NoRanking

\* The same with the default graph name, as the memory examples configure it.
InitMem ==
    /\ Constructed
    /\ config = [graphName |-> ""]
    /\ idCoercion \in BOOLEAN
    /\ extraction = NoExtraction
    /\ translation = NoTranslation
    /\ ranking = NoRanking

Next ==
    \E c \in Callers :
        \/ StartInit(c)
        \/ StartQuery(c)
        \/ ConnectResolve(c)
        \/ ConnectReject(c)
        \/ QuerySend(c)
        \/ StoreResolve(c)
        \/ StoreReject(c)
        \/ StartClose(c)
        \/ CloseResolve(c)
        \/ CloseReject(c)
        \/ Finish(c)

\* Calls on the handle may overlap: each runs up to its next await.
Spec == Init /\ [][Next]_vars

\* One call at a time: a call starts only when no call is in progress.
NoCallInProgress == \A d \in Callers : calls[d].pc = "idle"


NextSeq ==
    \E c \in Callers :
        \/ NoCallInProgress /\ StartInit(c)
        \/ NoCallInProgress /\ StartQuery(c)
        \/ ConnectResolve(c)
        \/ ConnectReject(c)
        \/ QuerySend(c)
        \/ StoreResolve(c)
        \/ StoreReject(c)
        \/ NoCallInProgress /\ StartClose(c)
        \/ CloseResolve(c)
        \/ CloseReject(c)
        \/ Finish(c)

\* Every call is awaited before the next one is made.
SpecSeq == Init /\ [][NextSeq]_vars

NextMem ==
    \E p \in Procs :
        \/ StartAdd(p)
        \/ StartSearch(p)
        \/ StartGetAll(p)
        \/ StartDeleteAll(p)
        \/ EntitiesReply(p)
        \/ RelationsReply(p)
        \/ SendQuery(p)
        \/ SearchGraphStep(p)
        \/ DeletionsReply(p)
        \/ DeletionsReplyAgain(p)
        \/ DeleteStep(p)
        \/ SearchSourceStep(p)
        \/ SearchDestinationStep(p)
        \/ MergeStep(p)
        \/ GetAllStep(p)
        \/ DeleteAllStep(p)
        \/ QueryFails(p)
        \/ FinishOp(p)
        \/ AddAgain(p)

\* The application calls add, search, getAll and deleteAll for its users, one
\* call after the other; each call runs from await to await.
SpecMem == InitMem /\ [][NextMem]_vars

\* new FalkorMemoryGraph(config) on a store that holds, from an earlier run,
\* one memory of user u1: the triple (a, r, b) or (b, r, c).
InitRace ==
    /\ initialized = FALSE
    /\ client = 0
    /\ graph = NoGraph
    /\ connectCalls = 0
    /\ connectFailures = 0
    /\ closeCalls = 0
    /\ openClients = {}
    /\ calls = [c \in Callers |-> IdleCall]
    /\ nCalls = 0
    /\ queriesOk = 0
    /\ ops = [p \in Threads |-> IdleOp]
    /\ nOps = 0
    /\ config = [graphName |-> ""]
    /\ idCoercion \in BOOLEAN
    /\ extraction = NoExtraction
    /\ translation = NoTranslation
    /\ ranking = NoRanking
    /\ \E names \in {<<"a", "b">>, <<"b", "c">>} :
         LET kept == MergeNew({}, {}, SelectedGraphName(config), Unknown,
                              <<names[1]>>, Embed(<<names[1]>>), Unknown,
                              <<names[2]>>, Embed(<<names[2]>>), <<"r">>, "u1")
         IN nodes = kept.nodes /\ edges = kept.edges

\* In the overlapping calls the model finds no entity to search the
\* neighbourhood of, names one triple, and asks for no deletion.
RaceEntitiesReply(p) == EntitiesReplyOf(p, {NoToolCalls})
RaceRelationsReply(p) ==
    RelationsReplyOf(p, {ToolCalls(<<RelationCall(<<"A">>, <<"R">>, <<"b">>)>>),
                         ToolCalls(<<RelationCall(<<"b">>, <<"R">>, <<"c">>)>>)})
RaceDeletionsReply(p) == DeletionsReplyOf(p, {NoToolCalls})

\* add and deleteAll, from the application and from the task.
NextRace ==
    \E p \in Threads :
        \/ StartAdd(p)
        \/ StartDeleteAll(p)
        \/ RaceEntitiesReply(p)
        \/ RaceRelationsReply(p)
        \/ RaceDeletionsReply(p)
        \/ SendQuery(p)
        \/ SearchSourceStep(p)
        \/ SearchDestinationStep(p)
        \/ MergeStep(p)
        \/ DeleteAllStep(p)
        \/ FinishOp(p)

\* The calls of the application and of the task overlap: each runs from await
\* to await, and between two awaits of one the other may take its steps.  The
\* store runs the statements of different calls in any order.
SpecRace == InitRace /\ [][NextRace]_vars

\* _retrieveNodesFromData is called and the model answers with any response.
InitExtract ==
    /\ Constructed
    /\ config = [graphName |-> ""]
    /\ idCoercion = FALSE
    /\ \E response \in ExtractionResponses :
         extraction = [NoExtraction EXCEPT !.pc = "called", !.response = response]
    /\ translation = NoTranslation
    /\ ranking = NoRanking

SpecExtract == InitExtract /\ [][Extract]_vars

\* translate is called with any of the query texts and params.
InitTranslate ==
    /\ Constructed
    /\ config = [graphName |-> ""]
    /\ idCoercion = FALSE
    /\ extraction = NoExtraction
    /\ ranking = NoRanking
    /\ \E ix \in SeqsUpTo(1..Len(Parts), MaxParts) \ {<<>>} : \E params \in ParamMaps :
         translation = [NoTranslation EXCEPT !.pc = "called", !.parts = ix,
                                             !.query = QueryText(ix), !.params = params]

SpecTranslate == InitTranslate /\ [][Translate]_vars

\* BM25.search is called on any documents, or search() gets any searchOutput.
InitRank ==
    /\ Constructed
    /\ config = [graphName |-> ""]
    /\ idCoercion = FALSE
    /\ extraction = NoExtraction
    /\ translation = NoTranslation
    /\ \E call \in RankingCalls \cup SearchEndCalls :
         ranking = IF call.fn = "bm25"
                   THEN [NoRanking EXCEPT !.fn = "bm25", !.pc = "called",
                                          !.documents = call.documents, !.terms = call.terms]
                   ELSE [NoRanking EXCEPT !.fn = "search", !.pc = "called",
                                          !.hits = call.hits, !.text = call.text]

NextRank == Rank \/ SearchEnd

SpecRank == InitRank /\ [][NextRank]_vars

\* ------------------------------------------------------------------------
\* Claims about FalkorDBGraph
\* ------------------------------------------------------------------------

\* C1: calls that overlap the first initialization open the connection once:
\* as long as no connect has failed and nothing was closed, FalkorDB.connect
\* has been called at most once.
C1_ConnectOnceUnderOverlap ==
    (connectFailures = 0 /\ closeCalls = 0) => connectCalls <= 1

\* C2: constructing opens no connection, the first query opens it, and with
\* calls made one after the other no step calls connect while the handle is
\* initialized, so that without a failed connect or a close the count stays 1.
C2_SequentialQueriesConnectOnce ==
    /\ [](nCalls = 0 => (connectCalls = 0 /\ client = 0 /\ openClients = {}))
    /\ [](queriesOk > 0 => connectCalls >= 1)
    /\ [][initialized => connectCalls' = connectCalls]_vars
    /\ []((queriesOk > 0 /\ connectFailures = 0 /\ closeCalls = 0) => connectCalls = 1)

C2_Witness ==
    queriesOk >= 2 /\ connectCalls = 1 /\ connectFailures = 0 /\ closeCalls = 0

\* C3: what query() hands to the store's graph.query is the output of
\* CypherTranslator.translate(cypher, params || {}), and no text with an
\* elementId call reaches the store.
C3_StoreGetsTranslation ==
    \A c \in Callers : \A i \in 1..Len(calls[c].sent) :
        LET t == translate(calls[c].cypher, ParamsOrEmpty(calls[c].params))
        IN /\ calls[c].sent[i].query = t.query
           /\ calls[c].sent[i].params = t.params
           /\ ~HasElementIdCall(calls[c].sent[i].query)

C3_Witness ==
    \E c \in Callers :
        /\ Len(calls[c].sent) = 1
        /\ calls[c].sent[1].query # calls[c].cypher
        /\ ~calls[c].params.given

\* The token sequence part occurs in whole as a contiguous piece.
ContainsSeq(whole, part) ==
    \E i \in 0..(Len(whole) - Len(part)) : SubSeq(whole, i + 1, i + Len(part)) = part

\* C4: when the store query fails, query() throws an error whose message holds
\* the underlying message and the text that was executed; the store was asked
\* once and the call carries no result.
C4_StoreFailureIsWrapped ==
    \A c \in Callers :
        /\ Len(calls[c].sent) <= 1
        /\ (calls[c].op = "query" /\ calls[c].pc = "threw" /\ Len(calls[c].sent) > 0) =>
              /\ calls[c].outcome.kind = "error"
              /\ calls[c].outcome.rows = <<>>
              /\ ContainsSeq(calls[c].outcome.message, <<ErrorText(calls[c].outcome.cause)>>)
              /\ (calls[c].outcome.cause.message # "" =>
                     ContainsSeq(calls[c].outcome.message, <<calls[c].outcome.cause.message>>))
              /\ ContainsSeq(calls[c].outcome.message, calls[c].sent[1].query)

C4_Witness ==
    \E c \in Callers :
        /\ calls[c].op = "query" /\ calls[c].pc = "threw" /\ Len(calls[c].sent) = 1
        /\ calls[c].sent[1].query # calls[c].cypher

\* C5: close() on a handle that was never initialized (no client yet) returns
\* without error, calls neither client.close nor FalkorDB.connect, and leaves
\* the handle without a connection.
C5_CloseBeforeInitIsNoOp ==
    [][\A c \in Callers :
          (calls[c].pc = "idle" /\ calls'[c].op = "close" /\ client = 0) =>
              /\ calls'[c].pc = "returned"
              /\ calls'[c].outcome.kind = "value"
              /\ closeCalls' = closeCalls
              /\ connectCalls' = connectCalls
              /\ client' = 0 /\ openClients' = openClients /\ initialized' = initialized]_vars

C5_Witness ==
    \E c \in Callers :
        /\ calls[c].op = "close" /\ calls[c].pc = "returned"
        /\ calls[c].via = "FalkorMemory"
        /\ client = 0 /\ closeCalls = 0

\* ------------------------------------------------------------------------
\* Claims about FalkorMemoryGraph
\* ------------------------------------------------------------------------

\* The triple is a relationship between two nodes of the user.
OwnTriple(user, source, relationship, destination) ==
    \E e \in edges : \E n \in nodes : \E m \in nodes :
        /\ e.type = relationship /\ e.src = n.id /\ e.dst = m.id
        /\ e.graph = n.graph /\ e.graph = m.graph
        /\ n.name = source /\ m.name = destination
        /\ n.user_id = user /\ m.user_id = user

\* C6: tenant isolation: whatever the tenants have added, every triple that
\* search or getAll returns to a tenant is a relationship between two nodes
\* of that tenant, never one with a node of another tenant.
C6_TenantIsolation ==
    \A p \in Procs :
        /\ (ops[p].pc = "returned" /\ ops[p].kind = "search") =>
              \A k \in 1..Len(ops[p].result.rows) :
                  OwnTriple(ops[p].user, ops[p].result.rows[k].source,
                            ops[p].result.rows[k].relationship,
                            ops[p].result.rows[k].destination)
        /\ (ops[p].pc = "returned" /\ ops[p].kind = "getAll") =>
              \A k \in 1..Len(ops[p].result.rows) :
                  OwnTriple(ops[p].user, ops[p].result.rows[k].source,
                            ops[p].result.rows[k].relationship,
                            ops[p].result.rows[k].target)

C6_Witness ==
    \E p \in Procs :
        /\ ops[p].pc = "returned" /\ ops[p].kind = "search"
        /\ Len(ops[p].result.rows) > 0
        /\ \E n \in nodes : \E e \in edges :
               n.user_id # ops[p].user /\ e.src = n.id

\* The graph name the layout "<baseName>_<tenantId>" gives a tenant.
TenantGraphName(cfg, user) == SelectedGraphName(cfg) \o "_" \o user

\* C7: every store query made for a tenant runs on the graph named
\* <baseName>_<tenant>, and nodes of two tenants are never in one graph.
C7_GraphPerTenant ==
    /\ \A p \in Procs : \A g \in ops[p].ranOn : g = TenantGraphName(config, ops[p].user)
    /\ \A n \in nodes : \A m \in nodes : n.user_id # m.user_id => n.graph # m.graph

\* No two relationships of one type join the same ordered pair of nodes.
OneEdgePerType ==
    \A e \in edges : \A f \in edges :
        (e.graph = f.graph /\ e.type = f.type /\ e.src = f.src /\ e.dst = f.dst) => e = f

\* C8: the graph holds at most one relationship of a type between an ordered
\* pair of nodes, and an add that repeats the add before it (same entities,
\* triples and deletions) leaves the numbers of relationships and nodes as
\* they were.
C8_AddIsIdempotent ==
    /\ OneEdgePerType
    /\ \A p \in Procs :
          (ops[p].pc = "returned" /\ ops[p].kind = "add" /\ ops[p].again) =>
              /\ Cardinality(edges) = Cardinality(ops[p].before.edges)
              /\ Cardinality(nodes) = Cardinality(ops[p].before.nodes)

\* C9: an add in which the model gave unparseable tool-call arguments at some
\* step fails only with a store failure, and when it returns the graph is as
\* it was when the add started.
C9_MalformedOutputIsNoOp ==
    \A p \in Procs :
        (ops[p].kind = "add" /\ ops[p].malformed) =>
            /\ ops[p].pc = "threw" => ops[p].error.kind = "store"
            /\ ops[p].pc = "returned" =>
                  (nodes = ops[p].before.nodes /\ edges = ops[p].before.edges)

\* Lower-case and without spaces.
IsNormalized(str) == \A i \in 1..Len(str) : str[i] # " " /\ LowerChar(str[i]) = str[i]

\* C10: entity extraction never raises because of the model's output: it
\* returns a map, empty when parsing failed, whose keys and values are
\* lower-case with underscores for spaces.
C10_ExtractionNeverRaises ==
    extraction.pc \in {"returned", "threw"} =>
        /\ extraction.pc = "returned"
        /\ CollectEntities(extraction.response).threw => extraction.map = <<>>
        /\ \A i \in 1..Len(extraction.map) :
               IsNormalized(extraction.map[i].k) /\ IsNormalized(extraction.map[i].v)

\* ------------------------------------------------------------------------
\* deleteAll and search
\* ------------------------------------------------------------------------

\* The nodes of a tenant among N.
NodesOf(N, user) == {n \in N : n.user_id = user}

\* The relationships of E attached to a node of the tenant among N.
AttachedTo(N, E, user) ==
    {e \in E : \E n \in NodesOf(N, user) :
                  n.graph = e.graph /\ (n.id = e.src \/ n.id = e.dst)}

\* The names add and search embed.
Names == {<<"a">>, <<"b">>, <<"c">>}

\* C11: when deleteAll(T) has returned, no node of T is left and no
\* relationship that was attached to a node of T; the nodes and relationships
\* of every other tenant are the ones held before the call; and the queries
\* of getAll(T) and of a search under T match nothing.
C11_DeleteAllRemovesTenant ==
    \A p \in Procs :
        (ops[p].kind = "deleteAll" /\ ops[p].pc = "returned") =>
            LET T == ops[p].user
                b == ops[p].before
            IN /\ NodesOf(nodes, T) = {}
               /\ edges \cap AttachedTo(b.nodes, b.edges, T) = {}
               /\ nodes = b.nodes \ NodesOf(b.nodes, T)
               /\ edges = b.edges \ AttachedTo(b.nodes, b.edges, T)
               /\ GetAllResults(nodes, edges, graph.name, T, SearchLimit) = {<<>>}
               /\ \A name \in Names : \A rounds \in BOOLEAN :
                      SearchGraphRows(nodes, edges, graph.name, rounds, T, Embed(name),
                                      Threshold) = {}

\* deleteAll(T) has returned where T and another tenant both held
\* relationships.
C11_Witness ==
    \E p \in Procs :
        /\ ops[p].kind = "deleteAll" /\ ops[p].pc = "returned"
        /\ AttachedTo(ops[p].before.nodes, ops[p].before.edges, ops[p].user) # {}
        /\ edges # {}

\* C12: search returns at most five triples, each the source, relationship
\* and destination of one of the hits its similarity search gave; for no hits
\* it returns the empty list.
C12_SearchReturnsTopFiveHits ==
    (ranking.fn = "search" /\ ranking.pc = "returned") =>
        /\ Len(ranking.rows) <= 5
        /\ \A i \in 1..Len(ranking.rows) :
               \E j \in 1..Len(ranking.hits) :
                   /\ ranking.rows[i].source = ranking.hits[j].source
                   /\ ranking.rows[i].relationship = ranking.hits[j].relationship
                   /\ ranking.rows[i].destination = ranking.hits[j].destination
        /\ (Len(ranking.hits) = 0 => ranking.rows = <<>>)

\* search has returned five triples of six hits, not all alike.
C12_Witness ==
    /\ ranking.fn = "search" /\ ranking.pc = "returned"
    /\ Len(ranking.hits) = 6 /\ Len(ranking.rows) = 5
    /\ \E i, j \in 1..6 : ranking.hits[i] # ranking.hits[j]

\* ------------------------------------------------------------------------
\* Claims about CypherTranslator
\* ------------------------------------------------------------------------

\* A call of the merge-relationship procedure in a query text.
HasApocCall(q) == \E i \in 1..Len(q) : q[i] \in ApocName

\* round(<expr>, <integer>) AS in a query text: a call of round whose own
\* closing parenthesis follows an integer second argument and precedes AS.
HasRoundPrecisionAs(q) ==
    \E i \in 1..Len(q) :
        /\ RoundCallAt(q, i)
        /\ LET c == CloseOf(q, SkipWs(q, i + 1) + 1, 1)
               d == BackWs(q, c - 1)
               k == BackWs(q, d - 1)
               a == SkipWs(q, c + 1)
           IN /\ c > 0 /\ d >= 1 /\ q[d] \in DigitTokens /\ k >= 1 /\ q[k] = ","
              /\ a <= Len(q) /\ q[a] = "AS"

\* C13: a query text with no elementId call, no round(<expr>, <integer>) AS
\* and no merge-relationship call comes back from translate as it was, with
\* the params it was given.
C13_PassThrough ==
    (/\ translation.pc = "returned"
     /\ ~HasElementIdCall(translation.query)
     /\ ~HasRoundPrecisionAs(translation.query)
     /\ ~HasApocCall(translation.query)) =>
        /\ translation.result.query = translation.query
        /\ translation.result.params = translation.params

\* The label the rewritten call is to carry: the value of params[p], or the
\* default when p is absent.
Label(part, params) ==
    IF part.rel \in DOMAIN params THEN params[part.rel] ELSE "RELATED_TO"

\* What the rewrite meant for a part is to make of it.
Want(part, params) ==
    IF part.kind = "apoc"
    THEN <<"MERGE", " ", "(", part.src, ")", "-", "[", part.yld, ":", Backtick,
           Label(part, params), Backtick, "]", "->", "(", part.tgt, ")">>
    ELSE part.want

\* The text and params translate is to return for the parts numbered ix.
WantedText(ix, params) == Lines([k \in 1..Len(ix) |-> Want(Parts[ix[k]], params)])
WantedParams(ix, params) ==
    [key \in DOMAIN params
              \ {Parts[ix[k]].rel : k \in {j \in 1..Len(ix) : Parts[ix[j]].kind = "apoc"}}
        |-> params[key]]

\* How many of the parts numbered ix are of a kind.
CountKind(ix, kind) == Cardinality({k \in 1..Len(ix) : Parts[ix[k]].kind = kind})

\* C14: in a query text the other two rewrites have nothing to do with,
\* translate turns every elementId call, with or without whitespace before
\* the parenthesis, into id( and keeps the arguments and the rest of the
\* text; no elementId call is left, and the params are as given.
C14_ElementIdBecomesId ==
    (/\ translation.pc = "returned"
     /\ ~HasRoundCall(translation.query)
     /\ ~HasApocCall(translation.query)) =>
        /\ translation.result.query = WantedText(translation.parts, translation.params)
        /\ ~HasElementIdCall(translation.result.query)
        /\ translation.result.params = translation.params

\* translate has returned for a text of several lines with three elementId
\* calls, one of them with whitespace before the parenthesis.
C14_Witness ==
    /\ translation.pc = "returned"
    /\ ~HasRoundCall(translation.query)
    /\ ~HasApocCall(translation.query)
    /\ CountKind(translation.parts, "elementId") = 3
    /\ \E k \in 1..3 : translation.parts[k] = 2

\* C15: in a query text with no elementId call and no merge-relationship
\* call, translate drops the integer second argument of every
\* round(<expr>, <integer>) AS and changes nothing else: the arguments of
\* every other call stay as they were.
C15_RoundOnlyDropsPrecision ==
    (/\ translation.pc = "returned"
     /\ ~HasElementIdCall(translation.query)
     /\ ~HasApocCall(translation.query)) =>
        translation.result.query = WantedText(translation.parts, translation.params)

\* C16: in a query text with merge-relationship calls and no elementId or
\* round call, translate makes each call the MERGE of its source, yield
\* variable, label and target, the label being the value of params[p] or
\* the default when p is absent, and returns the params without the keys p
\* and with every other entry as it was.
C16_ApocBecomesMerge ==
    (/\ translation.pc = "returned"
     /\ HasApocCall(translation.query)
     /\ ~HasElementIdCall(translation.query)
     /\ ~HasRoundCall(translation.query)) =>
        /\ translation.result.query = WantedText(translation.parts, translation.params)
        /\ translation.result.params = WantedParams(translation.parts, translation.params)

Rewrite(name, tp) ==
    CASE name = "elementId" -> [query |-> translateElementId(tp.query), params |-> tp.params]
      [] name = "round" -> [query |-> translateRound(tp.query), params |-> tp.params]
      [] name = "apoc" -> translateApocMergeRelationship(tp.query, tp.params)

RECURSIVE RewriteInOrder(_, _)
RewriteInOrder(order, tp) ==
    IF Len(order) = 0 THEN tp
    ELSE RewriteInOrder(Tail(order), Rewrite(Head(order), tp))

\* The six orders of the three rewrites.
Orders ==
    {order \in [1..3 -> {"elementId", "round", "apoc"}] :
        \A i, j \in 1..3 : i # j => order[i] # order[j]}

\* C18: the three rewrites applied in any of the six orders give the text
\* and the params translate returns.
C18_OrderInsensitive ==
    translation.pc = "returned" =>
        \A order \in Orders :
            RewriteInOrder(order, [query |-> translation.query,
                                   params |-> translation.params]) = translation.result

\* ------------------------------------------------------------------------
\* Claims about BM25 and the persistence of triples
\* ------------------------------------------------------------------------

\* The documents that hold a term of the query.
Sharing(documents, terms) ==
    {d \in 1..Len(documents) :
        \E i \in 1..Len(documents[d]) : \E j \in 1..Len(terms) : documents[d][i] = terms[j]}

\* C19: when exactly one document holds a term of the query, BM25.search
\* ranks it first; its score is above zero and every other document scores
\* zero.
C19_OnlyMatchRanksFirst ==
    (/\ ranking.fn = "bm25" /\ ranking.pc = "returned"
     /\ Cardinality(Sharing(ranking.documents, ranking.terms)) = 1) =>
        \A d \in Sharing(ranking.documents, ranking.terms) :
            /\ ranking.ranked[1] = ranking.documents[d]
            /\ Score(ranking.documents, ranking.terms, d) > 0
            /\ \A e \in 1..Len(ranking.documents) :
                   e # d => Score(ranking.documents, ranking.terms, e) = 0

\* BM25.search has returned for three documents of which only the last, the
\* longest, holds a term of the query.
C19_Witness ==
    /\ ranking.fn = "bm25" /\ ranking.pc = "returned"
    /\ Len(ranking.documents) = 3
    /\ Sharing(ranking.documents, ranking.terms) = {3}
    /\ Len(ranking.documents[3]) > Len(ranking.documents[1])
    /\ Len(ranking.documents[1]) > 0

\* The nodes of the tenant a name resolves to at the threshold 0.9: those
\* whose embedding has a cosine of at least 0.9 with the embedding of the name.
Resolved(N, user, name) ==
    {n \in N : /\ n.user_id = user
               /\ ~n.embedding.null
               /\ Cos(n.embedding, Embed(name)) >= NodeThreshold}

\* The statement of _addEntities for the current triple of p has run.
Persisted(p) ==
    /\ ops[p].pc = "merge"
    /\ ops[p].sent.out
    /\ ops'[p].pc \in {"searchSource", "returned"}

\* What the statement is to have done for the current triple of p.
PersistedAsResolved(p) ==
    LET o == ops[p]
        item == o.toBeAdded[o.i]
        S == Resolved(nodes, o.user, item.source)
        D == Resolved(nodes, o.user, item.destination)
        fresh == nodes' \ nodes
        New(name) == {n \in fresh : /\ n.name = name
                                    /\ n.user_id = o.user
                                    /\ n.label = TypeOf(o.entityTypeMap, name)}
        Linked(A, B) == \E e \in edges' : \E a \in A : \E b \in B :
                            e.type = item.relationship /\ e.src = a.id /\ e.dst = b.id
    IN /\ nodes \subseteq nodes'
       /\ edges \subseteq edges'
       /\ Cardinality(edges' \ edges) <= 1
       /\ IF S = {} /\ D = {}
          THEN /\ fresh = New(item.source) \cup New(item.destination)
               /\ Linked(New(item.source), New(item.destination))
          ELSE IF S # {} /\ D = {}
          THEN /\ fresh = New(item.destination)
               /\ Linked(S, fresh)
          ELSE IF S = {} /\ D # {}
          THEN /\ fresh = New(item.source)
               /\ Linked(fresh, D)
          ELSE /\ fresh = {}
               /\ Linked(S, D)

\* C20: for each triple add processes, the statement that runs is the one of
\* the case given by whether its source and its destination resolve at 0.9:
\* neither, both nodes (typed from the entity-type map, else "unknown") and
\* the relationship are created; only the source, that node is reused and
\* the destination node and the relationship are created; only the
\* destination, the same the other way round; both, nothing but the
\* relationship between the two resolved nodes.
C20_PersistenceByResolution ==
    [][\A p \in Procs : Persisted(p) => PersistedAsResolved(p)]_vars

\* ------------------------------------------------------------------------
\* Claims about node resolution, deletion and the order of add
\* ------------------------------------------------------------------------

\* A node search of p has returned: which one, its candidate and its result.
NodeSearched(p) ==
    /\ ops[p].pc \in {"searchSource", "searchDestination"}
    /\ ops[p].sent.out
    /\ ops'[p].pc \in {"searchDestination", "merge"}

Candidate(o) ==
    IF o.pc = "searchSource" THEN Embed(o.toBeAdded[o.i].source)
    ELSE Embed(o.toBeAdded[o.i].destination)

FoundBy(o, after) == IF o.pc = "searchSource" THEN after.sourceFound ELSE after.destinationFound

\* The nodes of the tenant with a stored embedding whose cosine with the
\* candidate reaches the threshold.
Reaching(N, user, vector, threshold) ==
    {n \in N : n.user_id = user /\ ~n.embedding.null /\ Cos(n.embedding, vector) >= threshold}

\* What the claim asks of the result of a node search.
ResolvesBest(N, user, vector, threshold, found) ==
    /\ Len(found) <= 1
    /\ Len(found) = 0 <=> Reaching(N, user, vector, threshold) = {}
    /\ Len(found) = 1 =>
         \E n \in Reaching(N, user, vector, threshold) :
             /\ ToString(n.id) = found[1].elementId
             /\ \A m \in N : m.user_id = user /\ ~m.embedding.null
                                => Cos(m.embedding, vector) <= Cos(n.embedding, vector)

\* C21: a node search returns at most one node id; the node it returns is a
\* node of the tenant with a stored embedding whose cosine with the candidate
\* is at least the threshold and is not exceeded by another node of the
\* tenant; it returns nothing exactly when no node of the tenant reaches the
\* threshold.
C21_NodeResolution ==
    [][\A p \in Procs :
          NodeSearched(p) =>
              ResolvesBest(nodes, ops[p].user, Candidate(ops[p]), NodeThreshold,
                           FoundBy(ops[p], ops'[p]))]_vars

\* One round of the loop of _searchGraphDb of p has got its rows.
GraphSearched(p) ==
    /\ ops[p].pc = "searchGraph"
    /\ ops[p].sent.out
    /\ ops'[p].pc \in {"searchGraph", "deletions", "returned"}

\* The hits that round pushed.
Pushed(p) ==
    SubSeq(ops'[p].searchOutput, Len(ops[p].searchOutput) + 1, Len(ops'[p].searchOutput))

\* The cosines here are hundredths, which rounding to 4 decimal digits leaves
\* as they are: the similarity of the hit is the cosine of the node it was
\* found by, one of its two ends, and reaches the threshold.
HitByCosine(N, user, vector, threshold, hit) ==
    \E n \in Reaching(N, user, vector, threshold) :
        /\ ToString(n.id) \in {hit.source_id, hit.destination_id}
        /\ hit.similarity = Cos(n.embedding, vector)

\* C22: the similarity the executed query compares with the threshold is the
\* cosine rounded to 4 decimal digits: a node search at 0.9 returns only
\* nodes whose cosine with the candidate is at least 0.9 (never one at 0.85),
\* and every hit of a search at 0.7 carries the cosine of the node it was
\* found by, which is at least 0.7 (never 0.65).
C22_RoundedToFourDigits ==
    [][\A p \in Procs :
          /\ NodeSearched(p) =>
               \A k \in 1..Len(FoundBy(ops[p], ops'[p])) :
                   \E n \in Reaching(nodes, ops[p].user, Candidate(ops[p]), NodeThreshold) :
                       ToString(n.id) = FoundBy(ops[p], ops'[p])[k].elementId
          /\ GraphSearched(p) =>
               \A k \in 1..Len(Pushed(p)) :
                   HitByCosine(nodes, ops[p].user,
                               Embed(ObjKeys(ops[p].entityTypeMap)[ops[p].i]),
                               Threshold, Pushed(p)[k])]_vars

\* One round of the loop of _deleteEntities of p has got its answer.
DeleteRan(p) ==
    /\ ops[p].pc = "delete"
    /\ ops[p].sent.out
    /\ ~ops'[p].sent.out
    /\ ops'[p].pc # "threw"

\* The relationships a triple names for a tenant: of its type, from a node
\* of the tenant with its source name to one with its destination name.
NamedBy(N, E, user, item) ==
    {e \in E :
        /\ e.type = item.relationship
        /\ \E n \in NodesOf(N, user) : n.graph = e.graph /\ n.id = e.src /\ n.name = item.source
        /\ \E m \in NodesOf(N, user) :
               m.graph = e.graph /\ m.id = e.dst /\ m.name = item.destination}

\* C23: a round of the deletion step removes the relationships its triple
\* names for the tenant and nothing else: no node, and no other
\* relationship; when the triple names none, nothing changes and the round
\* ends with an empty result, not with an error.
C23_DeletionIsExact ==
    [][\A p \in Procs :
          DeleteRan(p) =>
              LET item == ops[p].toBeDeleted[ops[p].i]
                  named == NamedBy(nodes, edges, ops[p].user, item)
              IN /\ nodes' = nodes
                 /\ edges' = edges \ named
                 /\ Len(ops'[p].deleted) = Len(ops[p].deleted) + 1
                 /\ Len(ops'[p].deleted[Len(ops'[p].deleted)]) = Cardinality(named)
                 /\ ops'[p].error = NoError]_vars

\* The deletions of an add are done: one relationship was removed, another
\* one is still there, and so is every node.
C23_Witness ==
    \E p \in Procs :
        /\ ops[p].kind = "add" /\ ops[p].pc = "searchSource" /\ ops[p].i = 1
        /\ ~ops[p].sent.out
        /\ Len(ops[p].deleted) = 1 /\ Len(ops[p].deleted[1]) = 1
        /\ nodes = ops[p].before.nodes
        /\ edges # {}
        /\ edges \subseteq ops[p].before.edges
        /\ Cardinality(ops[p].before.edges \ edges) = 1

\* The steps of add, in the order the claim gives them.
StepOf(pc) ==
    CASE pc = "entities" -> 1
      [] pc = "relations" -> 2
      [] pc = "searchGraph" -> 3
      [] pc = "deletions" -> 4
      [] pc = "delete" -> 5
      [] pc \in {"searchSource", "searchDestination", "merge"} -> 6
      [] pc = "returned" -> 7
      [] OTHER -> 0

\* An add in progress that has not ended.
AddRunning(o) == o.kind = "add" /\ StepOf(o.pc) \in 1..6

\* What holds of an add at each of its steps.
AddInOrder(o) ==
    /\ StepOf(o.pc) \in 1..4 =>
         /\ nodes = o.before.nodes /\ edges = o.before.edges
         /\ o.deleted = <<>> /\ o.added = <<>>
    /\ StepOf(o.pc) \in 1..2 => o.searchOutput = <<>> /\ ~o.sent.out
    /\ StepOf(o.pc) = 5 =>
         /\ nodes = o.before.nodes /\ edges \subseteq o.before.edges
         /\ Len(o.deleted) = o.i - 1 /\ o.added = <<>>
    /\ StepOf(o.pc) = 6 =>
         /\ Len(o.deleted) = Len(o.toBeDeleted)
         /\ Len(o.added) = o.i - 1
    /\ StepOf(o.pc) = 7 =>
         /\ o.result.deleted_entities = o.deleted
         /\ Len(o.deleted) = Len(o.toBeDeleted)
         /\ o.result.added_entities = o.added
         /\ Len(o.added) = Len(o.toBeAdded)
         /\ o.result.relations = o.toBeAdded

\* C24: add goes through its steps in the order entity extraction, relation
\* extraction, neighbourhood search, deletion decision, deletions, additions:
\* a running add only moves on to the same or a later step (or fails); the
\* graph is as the add found it until the deletion decision is made; no
\* query of the additions is made before every deletion has been answered;
\* and what add returns holds the results of all deletions, the results of
\* all additions and the whole list of proposed triples.
C24_AddStepsInOrder ==
    /\ [](\A p \in Procs : ops[p].kind = "add" => AddInOrder(ops[p]))
    /\ [][\A p \in Procs :
             AddRunning(ops[p]) =>
                 \/ ops'[p].pc = "threw"
                 \/ /\ ops'[p].kind = "add"
                    /\ StepOf(ops'[p].pc) >= StepOf(ops[p].pc)
                    /\ StepOf(ops[p].pc) \in {1, 2} => StepOf(ops'[p].pc) > StepOf(ops[p].pc)]_vars

\* An add has returned after a deletion that removed a relationship and an
\* addition that merged one.
C24_Witness ==
    \E p \in Procs :
        /\ ops[p].kind = "add" /\ ops[p].pc = "returned"
        /\ Len(ops[p].result.deleted_entities) = 1
        /\ Len(ops[p].result.deleted_entities[1]) = 1
        /\ Len(ops[p].result.added_entities) = 1
        /\ Len(ops[p].result.added_entities[1]) = 1
        /\ Len(ops[p].entityTypeMap) > 0

\* The persisted nodes a node search of add resolved an endpoint to.
ReusedNodes(N, found) == {n \in N : \E k \in 1..Len(found) : ToString(n.id) = found[k].elementId}

\* The node is as an update with the embedding leaves it: it holds that
\* embedding and one of its timestamps is of now.
UpdatedWith(N, id, embedding) ==
    \E n \in N : n.id = id /\ n.embedding = embedding /\ n.created = Now

\* The ends the statement for the current triple binds: the nodes resolved
\* to, else the nodes of the tenant with the name.
EndsOf(N, user, found, name) ==
    IF Len(found) > 0 THEN ReusedNodes(N, found)
    ELSE {n \in NodesOf(N, user) : n.name = name}

\* C25: the statement add runs for a triple updates every persisted node it
\* resolved an endpoint to, in each of the cases that reuse a node: after it
\* the node holds the new embedding and a timestamp of now; and a
\* relationship of the triple's type that was already there between the two
\* ends has its update timestamp of now.
C25_ReuseUpdates ==
    [][\A p \in Procs :
          Persisted(p) =>
              LET o == ops[p]
                  item == o.toBeAdded[o.i]
              IN /\ \A n \in ReusedNodes(nodes, o.sourceFound) :
                        UpdatedWith(nodes', n.id, Embed(item.source))
                 /\ \A n \in ReusedNodes(nodes, o.destinationFound) :
                        UpdatedWith(nodes', n.id, Embed(item.destination))
                 /\ \A e \in edges :
                        /\ e.type = item.relationship
                        /\ \E n \in EndsOf(nodes, o.user, o.sourceFound, item.source) :
                               n.id = e.src
                        /\ \E n \in EndsOf(nodes, o.user, o.destinationFound,
                                           item.destination) : n.id = e.dst
                        => \E f \in edges' : f.id = e.id /\ f.updated_at = Now]_vars

\* C26: every node and every relationship carries, from the statement that
\* creates it on, the user id of the add that created it: what a statement of
\* _addEntities adds to the graph has the user_id of its add, and the user_id
\* of what is already there does not change.
C26_CreatedWithTenantId ==
    [][/\ \A p \in Procs :
            Persisted(p) =>
                /\ \A n \in nodes' \ nodes :
                       (\A m \in nodes : m.id # n.id) => n.user_id = ops[p].user
                /\ \A e \in edges' \ edges : e.user_id = ops[p].user
       /\ \A n \in nodes : \A m \in nodes' : m.id = n.id => m.user_id = n.user_id
       /\ \A e \in edges : \A f \in edges' : f.id = e.id => f.user_id = e.user_id]_vars

\* p hands the store the query of a round of the loop of _searchGraphDb.
GraphSearchSent(p) ==
    /\ ops[p].pc = "searchGraph"
    /\ ~ops[p].sent.out
    /\ ops'[p].sent.out

\* The [source, relationship, destination] of a hit.
DocOf(hit) == <<hit.source, hit.relationship, hit.destination>>

\* rows are hits of searchOutput, taken by pick, in the order of BM25 with
\* hits of equal score in the order of searchOutput.
RankedFirstSeen(searchOutput, query, rows, pick) ==
    LET documents == [i \in 1..Len(searchOutput) |-> DocOf(searchOutput[i])]
        score(i) == Score(documents, SplitSpaces(query), i)
    IN /\ \A j \in 1..Len(rows) : DocOf(searchOutput[pick[j]]) = <<rows[j].source, rows[j].relationship, rows[j].destination>>
       /\ \A j \in 1..Len(rows) : \A k \in 1..Len(rows) :
              j < k => \/ score(pick[j]) > score(pick[k])
                       \/ score(pick[j]) = score(pick[k]) /\ pick[j] < pick[k]
       /\ \A i \in 1..Len(searchOutput) : \A j \in 1..Len(rows) :
              (\A k \in 1..Len(rows) : pick[k] # i)
                  => \/ score(pick[j]) > score(i)
                     \/ score(pick[j]) = score(i) /\ pick[j] < i

\* C27: the similarity searches of _searchGraphDb, in add and in search, are
\* made one at a time in the order of the entity list: the loop starts at the
\* first entity, the query of round i is for the i-th entity and is made
\* while no other is out, its hits are appended to those of the rounds
\* before, and the next round, if any, is for entity i + 1; and what search
\* returns is its hits in the order of BM25, hits of equal score in the order
\* they were collected in.
C27_SearchesInOrder ==
    /\ [][\A p \in Procs :
             /\ GraphSearchSent(p) =>
                    ops'[p].sent.params.n_embedding
                        = Embed(ObjKeys(ops[p].entityTypeMap)[ops[p].i])
             /\ ops[p].pc # "searchGraph" /\ ops'[p].pc = "searchGraph" =>
                    ops'[p].i = 1 /\ ops'[p].searchOutput = <<>> /\ ~ops'[p].sent.out
             /\ GraphSearched(p) =>
                    /\ SubSeq(ops'[p].searchOutput, 1, Len(ops[p].searchOutput))
                           = ops[p].searchOutput
                    /\ ~ops'[p].sent.out
                    /\ IF ops[p].i < Len(ops[p].entityTypeMap)
                       THEN ops'[p].pc = "searchGraph" /\ ops'[p].i = ops[p].i + 1
                       ELSE ops'[p].pc # "searchGraph"]_vars
    /\ [](\A p \in Procs :
             ops[p].kind = "search" /\ ops[p].pc = "returned" =>
                 /\ Len(ops[p].result.rows)
                        = (IF Len(ops[p].searchOutput) < TopK THEN Len(ops[p].searchOutput)
                           ELSE TopK)
                 /\ \E pick \in [1..Len(ops[p].result.rows) -> 1..Len(ops[p].searchOutput)] :
                        RankedFirstSeen(ops[p].searchOutput, ops[p].query,
                                        ops[p].result.rows, pick))

\* A search over two entities has returned two different hits of equal BM25
\* score, collected in two rounds.
C27_Witness ==
    \E p \in Procs :
        /\ ops[p].kind = "search" /\ ops[p].pc = "returned"
        /\ Len(ops[p].entityTypeMap) = 2
        /\ Len(ops[p].result.rows) >= 2
        /\ \E j \in 1..Len(ops[p].searchOutput) : \E k \in 1..Len(ops[p].searchOutput) :
               LET documents == [i \in 1..Len(ops[p].searchOutput) |->
                                    DocOf(ops[p].searchOutput[i])]
               IN /\ j < k
                  /\ documents[j] # documents[k]
                  /\ Score(documents, SplitSpaces(ops[p].query), j)
                         = Score(documents, SplitSpaces(ops[p].query), k)

\* ------------------------------------------------------------------------
\* Claims about closing the handle
\* ------------------------------------------------------------------------

\* close() of c on an initialized handle returns.
CloseReturns(c) ==
    /\ calls[c].op = "close"
    /\ calls[c].pc = "closing"
    /\ calls'[c].pc = "returned"

\* C29: when close() on an initialized handle returns, client.close has been
\* called on its connection and the handle is uninitialized; a query() made
\* while the handle is uninitialized calls FalkorDB.connect and waits for it;
\* and every query is handed to a connection that is open, the one last
\* opened, never to one that was closed.
C29_ReconnectsAfterClose ==
    [][\A c \in Callers :
          /\ CloseReturns(c) /\ initialized =>
                 /\ closeCalls >= 1
                 /\ ~initialized'
                 /\ calls[c].closing \notin openClients'
          /\ calls[c].pc = "idle" /\ calls'[c].op = "query" /\ ~initialized =>
                 /\ calls'[c].pc = "connecting"
                 /\ connectCalls' = connectCalls + 1
          /\ calls[c].pc = "initDone" /\ calls'[c].pc = "awaitingStore" =>
                 /\ calls'[c].sent[Len(calls'[c].sent)].graph.client \in openClients
                 /\ calls'[c].sent[Len(calls'[c].sent)].graph.client = ConnectionsOpened]_vars

\* After a query, a close() that returned and a second query: the second
\* connection is the one the query is with, and the first is closed.
C29_Witness ==
    \E c \in Callers :
        /\ calls[c].op = "query" /\ calls[c].pc = "awaitingStore"
        /\ calls[c].sent[Len(calls[c].sent)].graph.client = 2
        /\ connectCalls = 2 /\ connectFailures = 0
        /\ closeCalls = 1
        /\ openClients = {2}
        /\ queriesOk = 1

\* ------------------------------------------------------------------------
\* Claims about what add leaves in the memory
\* ------------------------------------------------------------------------
\* The node n is still in M: the same node of the same tenant, by its id.
StillIn(n, M) ==
    \E m \in M :
        m.graph = n.graph /\ m.id = n.id /\ m.name = n.name /\ m.user_id = n.user_id

\* A step of add or of deleteAll that the store has answered.
StoreAnswered(p, kind) ==
    /\ ops[p].kind = kind
    /\ ops[p].sent.out
    /\ ~ops'[p].sent.out

\* C30: no step of an add removes a node: the nodes of every tenant before
\* the step are there after it, whatever triples the model named for
\* deletion, and so every node the memory had when the add began is there
\* while it runs and when it returns; a step that removes a node is the
\* query of a deleteAll.
C30_AddKeepsNodes ==
    /\ [][\A p \in Procs :
              /\ ops[p].kind = "add" =>
                     \A u \in Tenants : \A n \in NodesOf(nodes, u) : StillIn(n, NodesOf(nodes', u))
              /\ ops[p].kind = "add" => \A n \in nodes : StillIn(n, nodes')
              /\ (\E n \in nodes : ~StillIn(n, nodes')) => StoreAnswered(p, "deleteAll")]_vars
    /\ [](\A p \in Procs :
              ops[p].kind = "add" => \A n \in ops[p].before.nodes : StillIn(n, nodes))

\* An add has returned after a deletion that removed a relationship and a
\* merge that ran: every node the memory had before is there, and a
\* relationship it had is gone.
C30_Witness ==
    \E p \in Procs :
        /\ ops[p].kind = "add" /\ ops[p].pc = "returned"
        /\ Len(ops[p].deleted) >= 1 /\ Len(ops[p].deleted[1]) = 1
        /\ ops[p].before.nodes # {}
        /\ \A n \in ops[p].before.nodes : StillIn(n, nodes)
        /\ Len(ops[p].added) >= 1
        /\ ops[p].before.edges \ edges # {}

\* ------------------------------------------------------------------------
\* Claims about overlapping calls
\* ------------------------------------------------------------------------

\* Both ends of the relationship are nodes with the user id.
EndsCarry(N, e, user) ==
    /\ \E n \in N : n.graph = e.graph /\ n.id = e.src /\ n.user_id = user
    /\ \E m \in N : m.graph = e.graph /\ m.id = e.dst /\ m.user_id = user

\* C28: however add and deleteAll calls of any users overlap, every
\* relationship a statement of _addEntities creates connects two nodes that
\* carry the user id of its add: the node a node search resolved to, matched
\* again by its id alone in the later statement, is then no node of another
\* user.
C28_EdgesStayInTenant ==
    [][\A p \in Threads :
          Persisted(p) => \A e \in edges' \ edges : EndsCarry(nodes', e, ops[p].user)]_vars

====
